---- MODULE Spec2Model ----
(***************************************************************************)
(* A model of copra's REST client (copra/rest.py): the request signer      *)
(* (Client.get_auth_headers), the dispatcher (BaseClient._request and      *)
(* Client.get/post/delete with Client.handle_error) and the paginated      *)
(* endpoints built on them; and of its feed client (copra/websocket.py):   *)
(* Channel, Client and the callbacks of ClientProtocol.                    *)
(*                                                                         *)
(* Python values are records [ty, s, n, d]: None, a str, an int, or a      *)
(* float with integer part n and one decimal digit d.  A dict is a record  *)
(* [ty, items] whose items are a sequence of <<key, value>> pairs in       *)
(* insertion order.  The network is an input: every call that reaches the  *)
(* network draws the server's response from Responses.                     *)
(***************************************************************************)
EXTENDS Integers, Sequences, FiniteSets, TLC

VARIABLES client,    \* the rest.Client object: its construction and fields
          session,   \* the aiohttp.ClientSession of the client
          clock,     \* ticks of the wall clock read by time.time()
          netCount,  \* network requests issued so far on the session
          call,      \* the REST call the caller last made, with its outcome
          sig,       \* the last direct call of get_auth_headers
          tasks,     \* the concurrent callers of one client, each in a call
          chans,     \* the websocket.Channel objects the caller has made
          ws,        \* the websocket.Client object and its connection
          feed,      \* the frames received on the connection and their fate
          base,      \* a bare rest.BaseClient: its session and its last call
          sharedHeaders  \* what the module's HEADERS dict holds now

\* the variables of the feed client (copra/websocket.py)
feedVars == <<chans, ws, feed>>

\* the variables of the bare BaseClient and of the module
baseVars == <<base, sharedHeaders>>

vars ==
    <<client, session, clock, netCount, call, sig, tasks, feedVars, baseVars>>

----------------------------------------------------------------------------
(* Bounds of the model *)

\* the wall clock advances at most this many half-second ticks
MaxTicks == 1

\* at most this many requests are put on the network in one behaviour
MaxRequests == 1

\* the caller makes at most this many Channel objects
MaxChannels == 2

\* at most this many frames arrive on the feed connection
MaxFrames == 3

\* the feed client starts at most this many connections
MaxConnections == 2

----------------------------------------------------------------------------
(* Python values *)

None == [ty |-> "none", s |-> "", n |-> 0, d |-> 0]

PyS(x) == [ty |-> "str", s |-> x, n |-> 0, d |-> 0]

PyI(k) == [ty |-> "int", s |-> "", n |-> k, d |-> 0]

PyF(k, f) == [ty |-> "float", s |-> "", n |-> k, d |-> f]

\* True and False
PyB(b) == [ty |-> "bool", s |-> "", n |-> IF b THEN 1 ELSE 0, d |-> 0]

\* bool(v): None, '', 0 and 0.0 are false, every other value is true
Truthy(v) ==
    CASE v.ty = "none" -> FALSE
      [] v.ty = "str" -> v.s # ""
      [] OTHER -> v.n # 0 \/ v.d # 0

\* str(v)
PyStr(v) ==
    CASE v.ty = "none" -> "None"
      [] v.ty = "str" -> v.s
      [] v.ty = "int" -> ToString(v.n)
      [] v.ty = "bool" -> IF v.n = 1 THEN "True" ELSE "False"
      [] OTHER -> ToString(v.n) \o "." \o ToString(v.d)

\* str.lower() on the header and channel names the model uses
lower(s) ==
    CASE s \in {"CB-AFTER", "Cb-After"} -> "cb-after"
      [] s \in {"CB-BEFORE", "Cb-Before"} -> "cb-before"
      [] s \in {"Ticker", "TICKER"} -> "ticker"
      [] s = "Heartbeat" -> "heartbeat"
      [] OTHER -> s

NoDict == [ty |-> "none", items |-> <<>>]

Dict(items) == [ty |-> "dict", items |-> items]

\* bool(d) of a dict or None: only a dict with at least one item is true
DictTruthy(d) == d.ty = "dict" /\ d.items # <<>>

HasKey(d, k) == \E i \in 1..Len(d.items) : d.items[i][1] = k

\* d[k] of a dict that has the key k (keys of a dict are unique)
DictGet(d, k) == d.items[CHOOSE i \in 1..Len(d.items) : d.items[i][1] = k][2]

\* d[k] = v: replaces the value of an existing key in place, else appends
DictSet(d, k, v) ==
    IF HasKey(d, k)
    THEN Dict([i \in 1..Len(d.items) |->
                 IF d.items[i][1] = k THEN <<k, v>> ELSE d.items[i]])
    ELSE Dict(Append(d.items, <<k, v>>))

\* the JSON text of one value, as json.dumps writes it
JsonValue(v) ==
    CASE v.ty = "none" -> "null"
      [] v.ty = "str" -> "\"" \o v.s \o "\""
      [] v.ty = "bool" -> IF v.n = 1 THEN "true" ELSE "false"
      [] OTHER -> PyStr(v)

RECURSIVE JsonItems(_)
JsonItems(items) ==
    IF items = <<>> THEN ""
    ELSE LET head == "\"" \o items[1][1] \o "\": " \o JsonValue(items[1][2])
         IN IF Len(items) = 1 THEN head
            ELSE head \o ", " \o JsonItems(Tail(items))

\* json.dumps(d) of a dict, with the default separators ', ' and ': '
JsonDumps(d) == "{" \o JsonItems(d.items) \o "}"

RECURSIVE UrlItems(_)
UrlItems(items) ==
    IF items = <<>> THEN ""
    ELSE LET head == items[1][1] \o "=" \o PyStr(items[1][2])
         IN IF Len(items) = 1 THEN head
            ELSE head \o "&" \o UrlItems(Tail(items))

\* urllib.parse.urlencode(params); the keys and values of the model hold no
\* character that quote_plus would escape
urlencode(params) == UrlItems(params.items)

----------------------------------------------------------------------------
(* Constants of the program *)

URL == "https://api.pro.coinbase.com"

USER_AGENT == "Python/3.7.0 copra/1.0.0"

HEADERS == "USER-AGENT" :> USER_AGENT

----------------------------------------------------------------------------
(* The signer: Client.get_auth_headers *)

\* base64.b64decode on the secrets of the model
B64Decode(s) ==
    CASE s = "c2VjcmV0" -> "secret"
      [] s = "b3RoZXI=" -> "other"
      [] OTHER -> ""

\* hmac.new(key, message, hashlib.sha256).digest(), as a symbolic term: equal
\* digests come only from equal keys and equal messages
HmacSha256(key, message) == "hmac-sha256<" \o key \o ">(" \o message \o ")"

\* base64.b64encode(digest).decode('utf-8'), as a symbolic term
B64Encode(digest) == "b64(" \o digest \o ")"

\* time.time(): a float; the clock starts at 1000.0 and a tick is 0.5 s
Time(ticks) == PyF(1000 + (ticks \div 2), 5 * (ticks % 2))

NoHeaders == <<>>

\* get_auth_headers with the path put before the method in the message
get_auth_headers_PathFirst(c, path, method, body, timestamp, now) ==
    IF ~c.auth
    THEN [exc |-> "ValueError",
          text |-> "client is not properly configured for authorization",
          dumps |-> 0, body |-> "", message |-> "", headers |-> NoHeaders]
    ELSE LET text == IF DictTruthy(body) THEN JsonDumps(body) ELSE ""
             ts == PyStr(IF ~Truthy(timestamp) THEN now ELSE timestamp)
             message == ts \o path \o method \o text
             signature_b64 ==
                 B64Encode(HmacSha256(B64Decode(c.secret), message))
         IN [exc |-> "", text |-> "",
             dumps |-> IF DictTruthy(body) THEN 1 ELSE 0,
             body |-> text, message |-> message,
             headers |-> ("USER-AGENT" :> USER_AGENT)
                         @@ ("Content-Type" :> "Application/JSON")
                         @@ ("CB-ACCESS-SIGN" :> signature_b64)
                         @@ ("CB-ACCESS-TIMESTAMP" :> ts)
                         @@ ("CB-ACCESS-KEY" :> c.key)
                         @@ ("CB-ACCESS-PASSPHRASE" :> c.passphrase)]

\* get_auth_headers with the key and the passphrase in each other's header
get_auth_headers_SwappedKey(c, path, method, body, timestamp, now) ==
    IF ~c.auth
    THEN [exc |-> "ValueError",
          text |-> "client is not properly configured for authorization",
          dumps |-> 0, body |-> "", message |-> "", headers |-> NoHeaders]
    ELSE LET text == IF DictTruthy(body) THEN JsonDumps(body) ELSE ""
             ts == PyStr(IF ~Truthy(timestamp) THEN now ELSE timestamp)
             message == ts \o method \o path \o text
             signature_b64 ==
                 B64Encode(HmacSha256(B64Decode(c.secret), message))
         IN [exc |-> "", text |-> "",
             dumps |-> IF DictTruthy(body) THEN 1 ELSE 0,
             body |-> text, message |-> message,
             headers |-> ("USER-AGENT" :> USER_AGENT)
                         @@ ("Content-Type" :> "Application/JSON")
                         @@ ("CB-ACCESS-SIGN" :> signature_b64)
                         @@ ("CB-ACCESS-TIMESTAMP" :> ts)
                         @@ ("CB-ACCESS-KEY" :> c.passphrase)
                         @@ ("CB-ACCESS-PASSPHRASE" :> c.key)]

\* get_auth_headers(path, method, body, timestamp) on client c at wall-clock
\* time now.  exc is "" when the call returns; dumps counts the calls of
\* json.dumps; body and message are the texts the signature is made from.
get_auth_headers(c, path, method, body, timestamp, now) ==
    IF ~c.auth
    THEN [exc |-> "ValueError",
          text |-> "client is not properly configured for authorization",
          dumps |-> 0, body |-> "", message |-> "", headers |-> NoHeaders]
    ELSE LET text == IF DictTruthy(body) THEN JsonDumps(body) ELSE ""
             ts == PyStr(IF ~Truthy(timestamp) THEN now ELSE timestamp)
             message == ts \o method \o path \o text
             hmac_key == B64Decode(c.secret)
             signature_b64 == B64Encode(HmacSha256(hmac_key, message))
         IN [exc |-> "", text |-> "",
             dumps |-> IF DictTruthy(body) THEN 1 ELSE 0,
             body |-> text, message |-> message,
             headers |-> ("USER-AGENT" :> USER_AGENT)
                         @@ ("Content-Type" :> "Application/JSON")
                         @@ ("CB-ACCESS-SIGN" :> signature_b64)
                         @@ ("CB-ACCESS-TIMESTAMP" :> ts)
                         @@ ("CB-ACCESS-KEY" :> c.key)
                         @@ ("CB-ACCESS-PASSPHRASE" :> c.passphrase)]

----------------------------------------------------------------------------
(* The dispatcher: BaseClient._request, Client.handle_error and            *)
(* Client.get/post/delete                                                   *)

\* a response body that is not JSON (resp.json() raises on it)
NotJson == [ty |-> "notjson", items |-> <<>>]

\* a JSON array; each entry is abstracted to one <<field, value>> pair
JList(items) == [ty |-> "list", items |-> items]

NoResp == [status |-> 0, headers |-> <<>>, body |-> NotJson]

\* no response at all: "await getattr(self.session, method)(...)" raises
\* because the connection failed
ConnError == [status |-> -1, headers |-> <<>>, body |-> NotJson]

NoReq == [method |-> "", url |-> "", data |-> None, headers |-> NoHeaders]

\* the outcome of a call: a returned value or a raised exception
Return(headers, body, before, after) ==
    [kind |-> "return", exc |-> "", text |-> "", response |-> NoResp,
     headers |-> headers, body |-> body, before |-> before, after |-> after]

Raise(exc, text, response) ==
    [kind |-> "raise", exc |-> exc, text |-> text, response |-> response,
     headers |-> NoHeaders, body |-> NotJson, before |-> None, after |-> None]

\* handle_error that leaves the status out of the error text
handle_error_NoStatus(response) ==
    LET body == response.body
    IN IF body.ty = "dict" /\ HasKey(body, "message")
          /\ DictGet(body, "message").ty = "str"
       THEN Raise("APIRequestError", DictGet(body, "message").s, response)
       ELSE Raise("TypeError", "", NoResp)

\* handle_error that reports every error status as an APIRequestError, with
\* an empty message when the body has none
handle_error_AlwaysApiError(response) ==
    LET body == response.body
    IN IF body.ty = "dict" /\ HasKey(body, "message")
          /\ DictGet(body, "message").ty = "str"
       THEN Raise("APIRequestError",
                  DictGet(body, "message").s \o " ["
                      \o ToString(response.status) \o "]",
                  response)
       ELSE Raise("APIRequestError",
                  " [" \o ToString(response.status) \o "]", response)

\* Client.handle_error(response): the exception it raises (it never returns)
handle_error(response) ==
    LET body == response.body
    IN IF body.ty = "notjson"
       THEN Raise("ContentTypeError", "", NoResp)
       ELSE IF body.ty # "dict"
       THEN Raise("TypeError", "", NoResp)
       ELSE IF ~HasKey(body, "message")
       THEN Raise("KeyError", "message", NoResp)
       ELSE IF DictGet(body, "message").ty # "str"
       THEN Raise("TypeError", "", NoResp)
       ELSE Raise("APIRequestError",
                  DictGet(body, "message").s \o " ["
                      \o ToString(response.status) \o "]",
                  response)

\* _request without the check of the method name
_request_AnyMethod(method, url, data, headers, resp) ==
    LET req == [method |-> method, url |-> url, data |-> data,
                headers |-> headers]
    IN IF resp = ConnError
       THEN [sent |-> 1, req |-> req, resp |-> NoResp,
             exc |-> Raise("ClientConnectionError", "", NoResp)]
       ELSE IF resp.status >= 400
       THEN [sent |-> 1, req |-> req, resp |-> NoResp,
             exc |-> handle_error(resp)]
       ELSE [sent |-> 1, req |-> req, resp |-> resp,
             exc |-> Return(NoHeaders, NotJson, None, None)]

\* _request that sends the request a second time when the first attempt
\* fails or is answered with an error status
_request_Retry(method, url, data, headers, resp) ==
    IF method \notin {"delete", "get", "post"}
    THEN [sent |-> 0, req |-> NoReq, resp |-> NoResp,
          exc |-> Raise("ValueError",
                        "Inavlid method " \o method
                            \o ". Must be delete, get, or post", NoResp)]
    ELSE LET req == [method |-> method, url |-> url, data |-> data,
                     headers |-> headers]
         IN IF resp = ConnError
            THEN [sent |-> 2, req |-> req, resp |-> NoResp,
                  exc |-> Raise("ClientConnectionError", "", NoResp)]
            ELSE IF resp.status >= 400
            THEN [sent |-> 2, req |-> req, resp |-> NoResp,
                  exc |-> handle_error(resp)]
            ELSE [sent |-> 1, req |-> req, resp |-> resp,
                  exc |-> Return(NoHeaders, NotJson, None, None)]

\* BaseClient._request(method, url, data=data, headers=headers) of a
\* rest.Client, with resp the response the server gives if the request is
\* sent.  sent counts the requests put on the network, req is the request.
\* exc is the raised exception, or resp is the returned response.  The
\* request is awaited once: no loop, no second attempt.
_request(method, url, data, headers, resp) ==
    IF method \notin {"delete", "get", "post"}
    THEN [sent |-> 0, req |-> NoReq, resp |-> NoResp,
          exc |-> Raise("ValueError",
                        "Inavlid method " \o method
                            \o ". Must be delete, get, or post", NoResp)]
    ELSE LET req == [method |-> method, url |-> url, data |-> data,
                     headers |-> headers]
         IN IF resp = ConnError
            THEN [sent |-> 1, req |-> req, resp |-> NoResp,
                  exc |-> Raise("ClientConnectionError", "", NoResp)]
            ELSE IF resp.status >= 400
            THEN [sent |-> 1, req |-> req, resp |-> NoResp,
                  exc |-> handle_error(resp)]
            ELSE [sent |-> 1, req |-> req, resp |-> resp,
                  exc |-> Return(NoHeaders, NotJson, None, None)]

\* BaseClient.delete(url, params, headers)
BaseClient_delete(url, params, headers, resp) ==
    _request("delete",
            IF DictTruthy(params) THEN url \o "?" \o urlencode(params)
            ELSE url,
            None, headers, resp)

\* BaseClient.get(url, params, headers)
BaseClient_get(url, params, headers, resp) ==
    _request("get",
            IF DictTruthy(params) THEN url \o "?" \o urlencode(params)
            ELSE url,
            None, headers, resp)

\* BaseClient.post that serializes whatever data it is given: json.dumps
\* gives 'null' for None and '{}' for an empty dict
BaseClient_post_AlwaysDumps(url, data, headers, resp) ==
    _request("post", url,
             PyS(IF data.ty = "none" THEN "null" ELSE JsonDumps(data)),
             headers, resp)

\* BaseClient.post(url, data, headers)
BaseClient_post(url, data, headers, resp) ==
    _request("post", url,
            PyS(IF DictTruthy(data) THEN JsonDumps(data) ELSE ""),
            headers, resp)

\* dict(resp.headers): a plain dict keyed by the header names as received;
\* of two headers of one name the first is kept
RECURSIVE HeaderDict(_)
HeaderDict(hs) ==
    IF hs = <<>> THEN NoHeaders
    ELSE (hs[1][1] :> hs[1][2]) @@ HeaderDict(Tail(hs))

\* headers.get(name, None) on the plain dict
HeaderGet(headers, name) ==
    IF name \in DOMAIN headers THEN PyS(headers[name]) ELSE None

\* what get/post/delete use in place of get_auth_headers when auth is false:
\* nothing is signed and the headers are HEADERS
Unsigned ==
    [exc |-> "", text |-> "", dumps |-> 0, body |-> "", message |-> "",
     headers |-> sharedHeaders]

\* the last lines of Client.get/post/delete: body = await resp.json();
\* headers = dict(resp.headers); return (headers, body).  signed is what
\* get_auth_headers made for the call, dumps counts the calls of json.dumps.
Finish(r, signed, dumps) ==
    [sent |-> r.sent, req |-> r.req, signed |-> signed, dumps |-> dumps,
     out |-> IF r.exc.kind = "raise" THEN r.exc
             ELSE IF r.resp.body.ty = "notjson"
             THEN Raise("ContentTypeError", "", NoResp)
             ELSE Return(HeaderDict(r.resp.headers), r.resp.body, None, None)]

\* a call that raised before anything was sent
Failed(exc, text) ==
    [sent |-> 0, req |-> NoReq, signed |-> Unsigned, dumps |-> 0,
     out |-> Raise(exc, text, NoResp)]

\* Client.delete that signs the path together with its query string
Client_delete_SignsQuery(c, now, path, params, auth, resp) ==
    LET full == IF DictTruthy(params) THEN path \o "?" \o urlencode(params)
                ELSE path
        h == IF auth
             THEN get_auth_headers(c, full, "DELETE", Dict(<<>>), None, now)
             ELSE Unsigned
    IN IF h.exc # "" THEN Failed(h.exc, h.text)
       ELSE Finish(BaseClient_delete(c.url \o path, params, h.headers, resp),
                   h, 0)

\* Client.delete(path, params, auth) on client c at time now
Client_delete(c, now, path, params, auth, resp) ==
    LET h == IF auth
             THEN get_auth_headers(c, path, "DELETE", Dict(<<>>), None, now)
             ELSE Unsigned
    IN IF h.exc # "" THEN Failed(h.exc, h.text)
       ELSE Finish(BaseClient_delete(c.url \o path, params, h.headers, resp),
                   h, 0)

\* Client.get that falls back to the plain headers when signing fails
Client_get_Fallback(c, now, path, params, auth, resp) ==
    LET h == IF auth /\ c.auth
             THEN get_auth_headers(c, path, "GET", Dict(<<>>), None, now)
             ELSE Unsigned
    IN Finish(BaseClient_get(c.url \o path, params, h.headers, resp), h, 0)

\* Client.get(path, params, auth) on client c at time now
Client_get(c, now, path, params, auth, resp) ==
    LET h == IF auth
             THEN get_auth_headers(c, path, "GET", Dict(<<>>), None, now)
             ELSE Unsigned
    IN IF h.exc # "" THEN Failed(h.exc, h.text)
       ELSE Finish(BaseClient_get(c.url \o path, params, h.headers, resp),
                   h, 0)

\* Client.post(path, data, auth) on client c at time now: json.dumps runs in
\* get_auth_headers (when auth) and again in BaseClient.post
Client_post(c, now, path, data, auth, resp) ==
    LET h == IF auth
             THEN get_auth_headers(c, path, "POST", data, None, now)
             ELSE Unsigned
    IN IF h.exc # "" THEN Failed(h.exc, h.text)
       ELSE Finish(BaseClient_post(c.url \o path, data, h.headers, resp),
                   h, h.dumps + (IF DictTruthy(data) THEN 1 ELSE 0))

----------------------------------------------------------------------------
(* The paginated endpoints *)

\* the cursor parameters with every cursor that is not None sent
CursorParams_NotNone(limit, before, after) ==
    LET p0 == Dict(<<<<"limit", limit>>>>)
        p1 == IF before # None THEN DictSet(p0, "before", before) ELSE p0
    IN IF after # None THEN DictSet(p1, "after", after) ELSE p1

\* params = {'limit': limit}; if before: params.update({'before': before});
\* if after: params.update({'after': after})
CursorParams(limit, before, after) ==
    LET p0 == Dict(<<<<"limit", limit>>>>)
        p1 == IF Truthy(before) THEN DictSet(p0, "before", before) ELSE p0
    IN IF Truthy(after) THEN DictSet(p1, "after", after) ELSE p1

\* the two cursors returned in each other's place
Page_Swapped(r) ==
    IF r.out.kind = "raise" THEN r
    ELSE [r EXCEPT !.out.before = HeaderGet(r.out.headers, "cb-after"),
                   !.out.after = HeaderGet(r.out.headers, "cb-before")]

\* headers, body = await self.get(...);
\* return (body, headers.get('cb-before', None), headers.get('cb-after', None))
Page(r) ==
    IF r.out.kind = "raise" THEN r
    ELSE [r EXCEPT !.out.before = HeaderGet(r.out.headers, "cb-before"),
                   !.out.after = HeaderGet(r.out.headers, "cb-after")]

BothCursors == "before and after cannot both be provided."

\* trades without the check that only one cursor is given
trades_NoCursorCheck(c, now, product_id, limit, before, after, resp) ==
    Page(Client_get(c, now, "/products/" \o product_id \o "/trades",
                    CursorParams(limit, before, after), FALSE, resp))

\* Client.trades(product_id, limit, before, after)
trades(c, now, product_id, limit, before, after, resp) ==
    IF Truthy(before) /\ Truthy(after) THEN Failed("ValueError", BothCursors)
    ELSE Page(Client_get(c, now, "/products/" \o product_id \o "/trades",
                         CursorParams(limit, before, after), FALSE, resp))

\* Client.account_history(account_id, limit, before, after)
account_history(c, now, account_id, limit, before, after, resp) ==
    IF Truthy(before) /\ Truthy(after) THEN Failed("ValueError", BothCursors)
    ELSE Page(Client_get(c, now, "/accounts/" \o account_id \o "/ledger",
                         CursorParams(limit, before, after), TRUE, resp))

\* Client.holds(account_id, limit, before, after)
holds(c, now, account_id, limit, before, after, resp) ==
    IF Truthy(before) /\ Truthy(after) THEN Failed("ValueError", BothCursors)
    ELSE Page(Client_get(c, now, "/accounts/" \o account_id \o "/holds",
                         CursorParams(limit, before, after), TRUE, resp))

\* the status argument of orders: None, one str, or a list of str; vals is
\* the list after "if isinstance(status, str): status = [status]"
NoStatus == [ty |-> "none", vals |-> <<>>]

StatusStr(x) == [ty |-> "str", vals |-> <<x>>]

StatusList(xs) == [ty |-> "list", vals |-> xs]

\* bool(status): None, '' and [] are false
StatusTruthy(status) ==
    CASE status.ty = "none" -> FALSE
      [] status.ty = "str" -> status.vals[1] # ""
      [] OTHER -> status.vals # <<>>

\* params.update([('status', value) for value in status]) on the CIMultiDict
RECURSIVE StatusParams(_, _)
StatusParams(params, vals) ==
    IF vals = <<>> THEN params
    ELSE StatusParams(Dict(Append(params.items, <<"status", PyS(vals[1])>>)),
                      Tail(vals))

\* the first value of status that is not one of the four names, or ""
RECURSIVE BadStatus(_)
BadStatus(vals) ==
    IF vals = <<>> THEN ""
    ELSE IF vals[1] \notin {"active", "all", "open", "pending"} THEN vals[1]
    ELSE BadStatus(Tail(vals))

\* Client.orders(status, product_id, limit, before, after)
orders(c, now, status, product_id, limit, before, after, resp) ==
    IF Truthy(before) /\ Truthy(after) THEN Failed("ValueError", BothCursors)
    ELSE IF StatusTruthy(status) /\ BadStatus(status.vals) # ""
    THEN Failed("ValueError", "Invalid status: " \o BadStatus(status.vals))
    ELSE LET p0 == CursorParams(limit, before, after)
             p1 == IF StatusTruthy(status) THEN StatusParams(p0, status.vals)
                   ELSE p0
             p2 == IF product_id # ""
                   THEN DictSet(p1, "product_id", PyS(product_id)) ELSE p1
         IN Page(Client_get(c, now, "/orders", p2, TRUE, resp))

\* fills that sends both filters when both are given
fills_BothFilters(c, now, order_id, product_id, limit, before, after, resp) ==
    IF Truthy(before) /\ Truthy(after) THEN Failed("ValueError", BothCursors)
    ELSE IF order_id = "" /\ product_id = ""
    THEN Failed("ValueError", "Either order_id or product_id must be defined.")
    ELSE LET p0 == CursorParams(limit, before, after)
             p1 == IF order_id # ""
                   THEN DictSet(p0, "order_id", PyS(order_id)) ELSE p0
             p2 == IF product_id # ""
                   THEN DictSet(p1, "product_id", PyS(product_id)) ELSE p1
         IN Page(Client_get(c, now, "/fills", p2, TRUE, resp))

\* Client.fills(order_id, product_id, limit, before, after)
fills(c, now, order_id, product_id, limit, before, after, resp) ==
    IF Truthy(before) /\ Truthy(after) THEN Failed("ValueError", BothCursors)
    ELSE IF order_id = "" /\ product_id = ""
    THEN Failed("ValueError", "Either order_id or product_id must be defined.")
    ELSE IF order_id # "" /\ product_id # ""
    THEN Failed("ValueError", "order_id or product_id cannot both be sent.")
    ELSE LET p0 == CursorParams(limit, before, after)
             p1 == IF order_id # ""
                   THEN DictSet(p0, "order_id", PyS(order_id)) ELSE p0
             p2 == IF product_id # ""
                   THEN DictSet(p1, "product_id", PyS(product_id)) ELSE p1
         IN Page(Client_get(c, now, "/fills", p2, TRUE, resp))

----------------------------------------------------------------------------
(* Inputs *)

Keys == {"", "key1"}

Secrets == {"", "c2VjcmV0"}

Passphrases == {"", "pass1"}

Paths == {"/orders", "/time"}

Methods == {"GET", "POST", "DELETE"}

Bodies == {NoDict, Dict(<<>>), Dict(<<<<"side", PyS("buy")>>>>),
           Dict(<<<<"side", PyS("buy")>>, <<"size", PyI(2)>>>>)}

Timestamps == {None, PyI(0), PyF(0, 0), PyI(1000), PyF(1000, 0),
               PyF(1000, 5)}

Params == {NoDict, Dict(<<>>), Dict(<<<<"level", PyI(2)>>>>)}

\* the method names a caller can hand to _request
RequestMethods == {"get", "post", "delete", "GET", "put", ""}

Statuses == {200, 400, 404}

RespHeaders == {<<>>,
                <<<<"cb-after", "100">>>>,
                <<<<"cb-before", "50">>, <<"cb-after", "100">>>>,
                <<<<"CB-AFTER", "100">>>>,
                <<<<"Cb-After", "100">>>>}

RespBodies == {NotJson,
               JList(<<<<"id", PyS("t1")>>, <<"id", PyS("t2")>>>>),
               Dict(<<<<"message", PyS("Not Found")>>>>),
               Dict(<<<<"message", None>>>>),
               Dict(<<<<"id", PyS("7")>>>>)}

\* what the network gives for one request: a response, or a failure
Responses ==
    [status : Statuses, headers : RespHeaders, body : RespBodies]
        \cup {ConnError}

Cursors == {None, PyS(""), PyI(0), PyS("100")}

Limits == {PyI(100)}

ProductIds == {"", "BTC-USD"}

OrderIds == {"", "o1"}

StatusArgs == {NoStatus, StatusStr("bogus"),
               StatusList(<<"open", "pending">>)}

----------------------------------------------------------------------------
(* State *)

NoClient == [built |-> "none", url |-> "", auth |-> FALSE, key |-> "",
             secret |-> "", passphrase |-> ""]

NoSig == [called |-> FALSE]

NoCall == [op |-> "none"]

\* the tasks that call the one client concurrently
Callers == {"t1", "t2"}

\* a task that is not in a call
NoTask == [pc |-> "idle"]

\* no BaseClient constructed yet; exit tells how the block of an
\* "async with" on the client was left, if it was
NoBase == [session |-> "none", call |-> NoCall, exit |-> "none"]

\* no as_dict() call made yet
NoAsDict == [of |-> 0]

\* no Channel(...) call made yet; made lists the Channel objects made, dict
\* is the result of the last as_dict() call
NoChans == [made |-> <<>>, last |-> [called |-> FALSE], dict |-> NoAsDict]

\* no websocket.Client constructed yet
NoWs == [state |-> "none"]

\* nothing received yet.  received lists the frames in the order of their
\* arrival and next is the index of the first one not yet given to
\* onMessage; delivered lists the messages handed to on_message and raised
\* the exceptions that left onMessage.
NoFeed == [received |-> <<>>, next |-> 1, delivered |-> <<>>,
           raised |-> <<>>]

Init ==
    /\ client = NoClient
    /\ session = "none"
    /\ clock = 0
    /\ netCount = 0
    /\ call = NoCall
    /\ sig = NoSig
    /\ tasks = [t \in Callers |-> NoTask]
    /\ chans = NoChans
    /\ ws = NoWs
    /\ feed = NoFeed
    /\ base = NoBase
    /\ sharedHeaders = HEADERS

\* Client.__init__ that asks only for the key when auth is requested
ClientInit_KeyOnly(auth, key, secret, passphrase) ==
    /\ client.built = "none"
    /\ IF auth /\ key = ""
       THEN /\ client' = [NoClient EXCEPT !.built = "raised", !.url = URL]
            /\ session' = session
       ELSE /\ client' = [built |-> "ok", url |-> URL, auth |-> auth,
                          key |-> key, secret |-> secret,
                          passphrase |-> passphrase]
            /\ session' = "open"
    /\ UNCHANGED <<clock, netCount, call, sig, tasks, feedVars,
                 baseVars>>

\* Client.__init__(loop, url, auth, key, secret, passphrase): raises
\* ValueError before any field but url is set and before BaseClient.__init__
\* creates the session; the caller then holds no client object.
ClientInit(auth, key, secret, passphrase) ==
    /\ client.built = "none"
    /\ IF auth /\ ~(key # "" /\ secret # "" /\ passphrase # "")
       THEN /\ client' = [NoClient EXCEPT !.built = "raised", !.url = URL]
            /\ session' = session
       ELSE /\ client' = [built |-> "ok", url |-> URL, auth |-> auth,
                          key |-> key, secret |-> secret,
                          passphrase |-> passphrase]
            /\ session' = "open"
    /\ UNCHANGED <<clock, netCount, call, sig, tasks, feedVars,
                 baseVars>>

\* the wall clock advances between calls
Tick ==
    /\ clock < MaxTicks
    /\ clock' = clock + 1
    /\ UNCHANGED <<client, session, netCount, call, sig, tasks, feedVars,
                 baseVars>>

\* a direct call of client.get_auth_headers(path, method, body, timestamp)
GetAuthHeaders(path, method, body, timestamp) ==
    /\ client.built = "ok"
    /\ sig' = [called |-> TRUE, path |-> path, method |-> method,
               body |-> body, timestamp |-> timestamp, at |-> clock,
               res |-> get_auth_headers(client, path, method, body,
                                        timestamp, Time(clock))]
    /\ UNCHANGED <<client, session, clock, netCount, call, tasks, feedVars,
                 baseVars>>

\* the caller makes one REST call and r is what the call does: the requests
\* it sends (each answered by resp), what it signs and its outcome
Do(op, args, res, resp) ==
    /\ client.built = "ok"
    /\ session = "open"
    /\ call = NoCall
    /\ \E r \in {res} :
         /\ r.sent = 0 \/ netCount < MaxRequests
         /\ call' = [op |-> op, args |-> args, at |-> clock, sent |-> r.sent,
                     req |-> r.req, signed |-> r.signed, dumps |-> r.dumps,
                     resp |-> IF r.sent > 0 THEN resp ELSE NoResp,
                     out |-> r.out]
         /\ netCount' = netCount + r.sent
    /\ UNCHANGED <<client, session, clock, sig, tasks, feedVars,
                 baseVars>>

\* await client.get(path, params, auth)
Get(path, params, auth, resp) ==
    Do("get", [path |-> path, params |-> params, auth |-> auth],
       Client_get(client, Time(clock), path, params, auth, resp), resp)

\* await client.post(path, data, auth)
Post(path, data, auth, resp) ==
    Do("post", [path |-> path, data |-> data, auth |-> auth],
       Client_post(client, Time(clock), path, data, auth, resp), resp)

\* await client.delete(path, params, auth)
Delete(path, params, auth, resp) ==
    Do("delete", [path |-> path, params |-> params, auth |-> auth],
       Client_delete(client, Time(clock), path, params, auth, resp), resp)

\* await client._request(method, url, headers=HEADERS): returns the response
_Request(method, path, resp) ==
    LET r == _request(method, client.url \o path, None, sharedHeaders, resp)
    IN Do("_request", [method |-> method, path |-> path],
          [sent |-> r.sent, req |-> r.req, signed |-> Unsigned, dumps |-> 0,
           out |-> IF r.exc.kind = "raise" THEN r.exc
                   ELSE [r.exc EXCEPT !.response = r.resp]],
          resp)

\* await client.trades(product_id, limit, before, after)
Trades(limit, before, after, resp) ==
    Do("trades", [limit |-> limit, before |-> before, after |-> after],
       trades(client, Time(clock), "BTC-USD", limit, before, after, resp),
       resp)

\* await client.account_history(account_id, limit, before, after)
AccountHistory(limit, before, after, resp) ==
    Do("account_history",
       [limit |-> limit, before |-> before, after |-> after],
       account_history(client, Time(clock), "a1", limit, before, after, resp),
       resp)

\* await client.holds(account_id, limit, before, after)
Holds(limit, before, after, resp) ==
    Do("holds", [limit |-> limit, before |-> before, after |-> after],
       holds(client, Time(clock), "a1", limit, before, after, resp), resp)

\* await client.orders(status, product_id, limit, before, after)
Orders(status, product_id, limit, before, after, resp) ==
    Do("orders",
       [status |-> status, product_id |-> product_id, limit |-> limit,
        before |-> before, after |-> after],
       orders(client, Time(clock), status, product_id, limit, before, after,
              resp),
       resp)

\* await client.fills(order_id, product_id, limit, before, after)
Fills(order_id, product_id, limit, before, after, resp) ==
    Do("fills",
       [order_id |-> order_id, product_id |-> product_id, limit |-> limit,
        before |-> before, after |-> after],
       fills(client, Time(clock), order_id, product_id, limit, before, after,
             resp),
       resp)

\* the caller's await has returned or raised; it is free to make another call
Resume ==
    /\ call # NoCall
    /\ call' = NoCall
    /\ UNCHANGED <<client, session, clock, netCount, sig, tasks, feedVars,
                 baseVars>>

\* a client exists, its session is open and no call is in progress
Idle == client.built = "ok" /\ session = "open" /\ call = NoCall

Next ==
    \/ \E auth \in BOOLEAN, key \in Keys, secret \in Secrets,
          passphrase \in Passphrases :
            ClientInit(auth, key, secret, passphrase)
    \/ Tick
    \/ Resume
    \/ /\ Idle
       /\ \E path \in Paths, params \in Params, auth \in BOOLEAN,
             resp \in Responses :
               \/ Get(path, params, auth, resp)
               \/ Delete(path, params, auth, resp)
    \/ /\ Idle
       /\ \E path \in Paths, data \in Bodies, auth \in BOOLEAN,
             resp \in Responses :
               Post(path, data, auth, resp)
    \/ /\ Idle
       /\ \E method \in RequestMethods, path \in Paths, resp \in Responses :
               _Request(method, path, resp)
    \/ /\ Idle
       /\ \E limit \in Limits, before \in Cursors, after \in Cursors,
             resp \in Responses :
               \/ Trades(limit, before, after, resp)
               \/ AccountHistory(limit, before, after, resp)
               \/ Holds(limit, before, after, resp)
               \/ \E status \in StatusArgs, product_id \in ProductIds :
                    Orders(status, product_id, limit, before, after, resp)
               \/ \E order_id \in OrderIds, product_id \in ProductIds :
                    Fills(order_id, product_id, limit, before, after, resp)

\* the REST client: construction, the clock and the caller's REST calls
Spec == Init /\ [][Next]_vars

NextSign ==
    \/ \E auth \in BOOLEAN, key \in Keys, secret \in Secrets,
          passphrase \in Passphrases :
            ClientInit(auth, key, secret, passphrase)
    \/ Tick
    \/ \E path \in Paths, method \in Methods, body \in Bodies,
          timestamp \in Timestamps :
            GetAuthHeaders(path, method, body, timestamp)

\* the signer alone: construction, the clock, and direct calls of
\* get_auth_headers
SpecSign == Init /\ [][NextSign]_vars

----------------------------------------------------------------------------
(* Concurrent callers of one client.  A call runs without interruption up  *)
(* to "await getattr(self.session, method)(...)": it signs and hands the   *)
(* request to the session, and is resumed when the response is there.      *)
(* Other tasks run in between.                                             *)

\* the calls the tasks make
TaskOps == {"get", "post", "delete", "holds"}

\* the responses the tasks are given
TaskResponses ==
    {ConnError,
     [status |-> 200, headers |-> <<>>, body |-> Dict(<<<<"id", PyS("7")>>>>)],
     [status |-> 404, headers |-> <<>>,
      body |-> Dict(<<<<"message", PyS("Not Found")>>>>)]}

\* the outcome of a call that is still awaiting its response
Pending == [Return(NoHeaders, NotJson, None, None) EXCEPT !.kind = "pending"]

\* the call op of a task: client.get('/orders', auth=auth),
\* client.post('/orders', {'side': 'buy'}, auth=auth),
\* client.delete('/orders', auth=auth) or client.holds('a1')
CallOf(op, c, now, auth, resp) ==
    CASE op = "get" -> Client_get(c, now, "/orders", NoDict, auth, resp)
      [] op = "post" ->
           Client_post(c, now, "/orders", Dict(<<<<"side", PyS("buy")>>>>),
                       auth, resp)
      [] op = "delete" -> Client_delete(c, now, "/orders", NoDict, auth, resp)
      [] OTHER -> holds(c, now, "a1", PyI(100), None, None, resp)

\* a call that stores its auth argument on the client
TaskStart_SetsAuth(t, op, auth) ==
    /\ client.built = "ok"
    /\ session = "open"
    /\ tasks[t].pc = "idle"
    /\ \E r \in {CallOf(op, client, Time(clock), auth, ConnError)} :
         tasks' = [tasks EXCEPT ![t] =
                     [pc |-> IF r.sent = 0 THEN "done" ELSE "sent",
                      op |-> op, auth |-> auth, at |-> clock,
                      sent |-> r.sent, req |-> r.req,
                      out |-> IF r.sent = 0 THEN r.out ELSE Pending]]
    /\ client' = [client EXCEPT !.auth = auth]
    /\ UNCHANGED <<session, clock, netCount, call, sig, feedVars,
                 baseVars>>

\* task t starts a call: the code up to the await, which reads the client's
\* fields, signs and sends, or raises before anything is sent
TaskStart(t, op, auth) ==
    /\ client.built = "ok"
    /\ session = "open"
    /\ tasks[t].pc = "idle"
    /\ \E r \in {CallOf(op, client, Time(clock), auth, ConnError)} :
         tasks' = [tasks EXCEPT ![t] =
                     [pc |-> IF r.sent = 0 THEN "done" ELSE "sent",
                      op |-> op, auth |-> auth, at |-> clock,
                      sent |-> r.sent, req |-> r.req,
                      out |-> IF r.sent = 0 THEN r.out ELSE Pending]]
    /\ UNCHANGED <<client, session, clock, netCount, call, sig, feedVars,
                 baseVars>>

\* the response of task t's request arrives and the call runs to its end
TaskFinish(t, resp) ==
    /\ tasks[t].pc = "sent"
    /\ tasks' = [tasks EXCEPT
                   ![t].pc = "done",
                   ![t].out = CallOf(tasks[t].op, client, Time(tasks[t].at),
                                     tasks[t].auth, resp).out]
    /\ UNCHANGED <<client, session, clock, netCount, call, sig, feedVars,
                 baseVars>>

\* task t has its result and is free to make another call
TaskReturn(t) ==
    /\ tasks[t].pc = "done"
    /\ tasks' = [tasks EXCEPT ![t] = NoTask]
    /\ UNCHANGED <<client, session, clock, netCount, call, sig, feedVars,
                 baseVars>>

NextTasks ==
    \/ \E auth \in BOOLEAN, key \in Keys, secret \in Secrets,
          passphrase \in Passphrases :
            ClientInit(auth, key, secret, passphrase)
    \/ Tick
    \/ \E t \in Callers, op \in TaskOps, auth \in BOOLEAN :
            TaskStart(t, op, auth)
    \/ \E t \in Callers, resp \in TaskResponses : TaskFinish(t, resp)
    \/ \E t \in Callers : TaskReturn(t)

\* one client called by concurrent tasks whose calls interleave at the await
SpecTasks == Init /\ [][NextTasks]_vars

----------------------------------------------------------------------------
(* The feed client (copra/websocket.py): Channel and Client                *)

\* the product_ids argument of Channel: None, one str, or a list of str
NoIds == [ty |-> "none", vals |-> <<>>]

IdStr(x) == [ty |-> "str", vals |-> <<x>>]

IdList(xs) == [ty |-> "list", vals |-> xs]

\* bool(product_ids): None, '' and [] are false
IdsTruthy(product_ids) ==
    CASE product_ids.ty = "none" -> FALSE
      [] product_ids.ty = "str" -> product_ids.vals[1] # ""
      [] OTHER -> product_ids.vals # <<>>

\* the channel names Channel.__init__ accepts
ChannelNames == {"heartbeat", "ticker", "level2", "full", "matches", "user"}

\* set(list): the elements of the list
SetOf(xs) == {xs[i] : i \in 1..Len(xs)}

\* Channel.__init__ without the check of product_ids
Channel_NoIdCheck(name, product_ids) ==
    IF lower(name) \notin ChannelNames
    THEN [exc |-> "ValueError", text |-> "invalid name " \o name,
          name |-> lower(name), product_ids |-> {}]
    ELSE [exc |-> "", text |-> "", name |-> lower(name),
          product_ids |-> SetOf(product_ids.vals)]

\* Channel(name, product_ids): the object's name and product_ids, or the
\* ValueError raised.  A product_ids that is not a list is wrapped in one
\* before set() is applied.
Channel(name, product_ids) ==
    IF lower(name) \notin ChannelNames
    THEN [exc |-> "ValueError", text |-> "invalid name " \o name,
          name |-> lower(name), product_ids |-> {}]
    ELSE IF ~IdsTruthy(product_ids)
    THEN [exc |-> "ValueError",
          text |-> "must include at least one product id",
          name |-> lower(name), product_ids |-> {}]
    ELSE [exc |-> "", text |-> "", name |-> lower(name),
          product_ids |-> SetOf(IF product_ids.ty = "list"
                                THEN product_ids.vals
                                ELSE <<product_ids.vals[1]>>)]

\* the names and product ids the caller gives to Channel
ChanNameArgs == {"ticker", "Ticker", "heartbeat", "bogus"}

IdArgs == {NoIds, IdStr(""), IdList(<<>>), IdStr("BTC-USD"),
           IdList(<<"ETH-USD", "BTC-USD", "ETH-USD">>)}

\* the channels argument of Client: one Channel, or a list of them
OneChannel(ch) == [ty |-> "channel", vals |-> <<ch>>]

ChannelList(chs) == [ty |-> "list", vals |-> chs]

\* what the caller can pass as channels: any one Channel made, or the list
\* of the first k made
ChannelsArgs ==
    {OneChannel(chans.made[i]) : i \in 1..Len(chans.made)}
        \cup {ChannelList(SubSeq(chans.made, 1, k)) :
                 k \in 0..Len(chans.made)}

FEED_URL == "wss://ws-feed.gdax.com"

\* no call made on the feed client
NoWsCall == [op |-> "none"]

\* the caller evaluates Channel(name, product_ids): a new object, or
\* ValueError and no object
NewChannel(name, product_ids) ==
    /\ Len(chans.made) < MaxChannels
    /\ \E ch \in {Channel(name, product_ids)} :
         chans' = [made |-> IF ch.exc = ""
                            THEN Append(chans.made,
                                        [name |-> ch.name,
                                         product_ids |-> ch.product_ids])
                            ELSE chans.made,
                   last |-> [called |-> TRUE, name |-> name,
                             product_ids |-> product_ids, exc |-> ch.exc,
                             text |-> ch.text],
                   dict |-> chans.dict]
    /\ UNCHANGED <<client, session, clock, netCount, call, sig, tasks,
                 baseVars>>
    /\ UNCHANGED <<ws, feed>>

\* the orders in which iterating over the set S can give its elements
IterOrders(S) ==
    {q \in [1..Cardinality(S) -> S] : \A e \in S : \E i \in DOMAIN q : q[i] = e}

\* as_dict that lists one product id only
as_dict_FirstId(ch, order) ==
    [keys |-> {"name", "product_ids"}, name |-> ch.name,
     product_ids |-> <<order[1]>>]

\* Channel.as_dict(): {'name': self.name, 'product_ids':
\* list(self.product_ids)}; order is the order in which the set is iterated
as_dict(ch, order) ==
    [keys |-> {"name", "product_ids"}, name |-> ch.name,
     product_ids |-> order]

\* the caller evaluates as_dict() on the i-th Channel made
AsDict(i) ==
    /\ chans.dict.of # i
    /\ \E order \in IterOrders(chans.made[i].product_ids) :
         chans' = [chans EXCEPT
                      !.dict = [of |-> i,
                                value |-> as_dict(chans.made[i], order)]]
    /\ UNCHANGED <<client, session, clock, netCount, call, sig, tasks,
                 baseVars>>
    /\ UNCHANGED <<ws, feed>>

\* Client.__init__(loop, channels): a channels that is not a list is wrapped
\* in one and kept as _initial_channels; the channels dict starts empty
WsClientInit(channels) ==
    /\ ws.state = "none"
    /\ ws' = [state |-> "init",
              _initial_channels |-> IF channels.ty = "list"
                                    THEN channels.vals
                                    ELSE <<channels.vals[1]>>,
              channels |-> <<>>,
              feed_url |-> FEED_URL,
              name |-> "WebSocket Client",
              sent |-> <<>>,
              call |-> NoWsCall,
              conn |-> 0]
    /\ UNCHANGED <<client, session, clock, netCount, call, sig, tasks,
                 baseVars>>
    /\ UNCHANGED <<chans, feed>>

\* the caller evaluates ws.unsubscribe(name, product_ids): Client defines no
\* such method, so the attribute lookup raises AttributeError
Unsubscribe(name, product_ids) ==
    /\ ws.state # "none"
    /\ ws' = [ws EXCEPT !.call = [op |-> "unsubscribe", name |-> name,
                                  product_ids |-> product_ids,
                                  exc |-> "AttributeError"]]
    /\ UNCHANGED <<client, session, clock, netCount, call, sig, tasks,
                 baseVars>>
    /\ UNCHANGED <<chans, feed>>

\* the messages the server sends
Messages == {Dict(<<<<"type", PyS("heartbeat")>>>>),
             Dict(<<<<"type", PyS("ticker")>>, <<"price", PyS("1.0")>>>>)}

\* the frames that arrive: the messages as JSON text, and text that is not
\* JSON
Payloads == {JsonDumps(m) : m \in Messages} \cup {"not json"}

\* json.loads(payload.decode('utf8')): the object whose JSON text the payload
\* is; NotJson stands for the JSONDecodeError raised on any other text
JsonLoads(payload) ==
    IF \E m \in Messages : JsonDumps(m) = payload
    THEN CHOOSE m \in Messages : JsonDumps(m) = payload
    ELSE NotJson

\* Client.on_open(): a docstring and no statement; nothing is sent
on_open(w) == w

\* self.factory.on_message(msg): the handlers registered for messages are
\* given msg, one call per message
on_message(delivered, msg) == Append(delivered, msg)

\* the frames the connection had received but not yet given to onMessage
\* when it was closed are gone with it
Drop(f) == [f EXCEPT !.received = SubSeq(@, 1, f.next - 1)]

\* add_as_task_to_loop that starts the new connection on the protocol object
\* the client already has
AddAsTaskToLoop_Reuse ==
    /\ ws.state \in {"init", "closed"}
    /\ ws.conn < MaxConnections
    /\ ws' = [ws EXCEPT !.state = "connecting",
                        !.conn = IF @ = 0 THEN 1 ELSE @]
    /\ feed' = Drop(feed)
    /\ UNCHANGED <<client, session, clock, netCount, call, sig, tasks,
                 baseVars>>
    /\ UNCHANGED chans

\* add_as_task_to_loop: self.protocol = ClientProtocol() makes a new protocol
\* object, the conn-th of the client, and the connection to the server is
\* started as a task.  The method tests nothing, so it also runs on a client
\* whose connection was closed; the model has one connection at a time.
AddAsTaskToLoop ==
    /\ ws.state \in {"init", "closed"}
    /\ ws.conn < MaxConnections
    /\ ws' = [ws EXCEPT !.state = "connecting", !.conn = @ + 1]
    /\ feed' = Drop(feed)
    /\ UNCHANGED <<client, session, clock, netCount, call, sig, tasks,
                 baseVars>>
    /\ UNCHANGED chans

\* the task of create_connection fails: no connection is made
ConnectFailed ==
    /\ ws.state = "connecting"
    /\ ws' = [ws EXCEPT !.state = "closed"]
    /\ UNCHANGED <<client, session, clock, netCount, call, sig, tasks,
                 baseVars>>
    /\ UNCHANGED <<chans, feed>>

\* the transport of the open connection fails or the server closes it
ConnectionLost ==
    /\ ws.state = "open"
    /\ ws' = [ws EXCEPT !.state = "closed"]
    /\ UNCHANGED <<client, session, clock, netCount, call, sig, tasks,
                 baseVars>>
    /\ UNCHANGED <<chans, feed>>

\* ws.disconnect(): the closing of the open connection is started
Disconnect ==
    /\ ws.state = "open"
    /\ ws' = [ws EXCEPT !.state = "closing"]
    /\ UNCHANGED <<client, session, clock, netCount, call, sig, tasks,
                 baseVars>>
    /\ UNCHANGED <<chans, feed>>

\* the closing is complete and the transport released
CloseDone ==
    /\ ws.state = "closing"
    /\ ws' = [ws EXCEPT !.state = "closed"]
    /\ UNCHANGED <<client, session, clock, netCount, call, sig, tasks,
                 baseVars>>
    /\ UNCHANGED <<chans, feed>>

\* ClientProtocol.onOpen: the opening handshake is complete;
\* self.factory.on_open() is called
OnOpen ==
    /\ ws.state = "connecting"
    /\ ws' = [on_open(ws) EXCEPT !.state = "open"]
    /\ UNCHANGED <<client, session, clock, netCount, call, sig, tasks,
                 baseVars>>
    /\ UNCHANGED <<chans, feed>>

\* a complete message arrives on the open connection
Receive(payload) ==
    /\ ws.state = "open"
    /\ Len(feed.received) < MaxFrames
    /\ feed' = [feed EXCEPT !.received = Append(@, payload)]
    /\ UNCHANGED <<client, session, clock, netCount, call, sig, tasks,
                 baseVars>>
    /\ UNCHANGED <<chans, ws>>

\* onMessage that hands on only the messages that differ from the one
\* handed on before
OnMessage_SkipRepeats ==
    /\ ws.state = "open"
    /\ feed.next <= Len(feed.received)
    /\ \E msg \in {JsonLoads(feed.received[feed.next])} :
         IF msg = NotJson
         THEN /\ feed' = [feed EXCEPT !.next = @ + 1,
                                      !.raised = Append(@, "JSONDecodeError")]
              /\ \E st \in {"open", "closed"} : ws' = [ws EXCEPT !.state = st]
         ELSE /\ feed' = [feed EXCEPT
                            !.next = @ + 1,
                            !.delivered =
                                IF @ # <<>> /\ @[Len(@)] = msg THEN @
                                ELSE on_message(@, msg)]
              /\ ws' = ws
    /\ UNCHANGED <<client, session, clock, netCount, call, sig, tasks,
                 baseVars>>
    /\ UNCHANGED chans

\* ClientProtocol.onMessage(payload, isBinary) for the oldest frame not yet
\* processed: json.loads, then self.factory.on_message(msg).  On text that is
\* not JSON json.loads raises and the exception leaves onMessage, no handler
\* being called; what the transport then does with the connection is not
\* this code's choice, so it stays open or is closed.
OnMessage ==
    /\ ws.state = "open"
    /\ feed.next <= Len(feed.received)
    /\ \E msg \in {JsonLoads(feed.received[feed.next])} :
         IF msg = NotJson
         THEN /\ feed' = [feed EXCEPT !.next = @ + 1,
                                      !.raised = Append(@, "JSONDecodeError")]
              /\ \E st \in {"open", "closed"} : ws' = [ws EXCEPT !.state = st]
         ELSE /\ feed' = [feed EXCEPT !.next = @ + 1,
                                      !.delivered = on_message(@, msg)]
              /\ ws' = ws
    /\ UNCHANGED <<client, session, clock, netCount, call, sig, tasks,
                 baseVars>>
    /\ UNCHANGED chans

NextFeed ==
    \/ \E name \in {"ticker", "heartbeat"} :
            NewChannel(name, IdStr("BTC-USD"))
    \/ \E channels \in ChannelsArgs : WsClientInit(channels)
    \/ AddAsTaskToLoop
    \/ OnOpen
    \/ \E payload \in Payloads : Receive(payload)
    \/ OnMessage
    \/ ConnectFailed
    \/ ConnectionLost
    \/ Disconnect
    \/ CloseDone

\* the feed client from its construction to the frames it is sent
SpecFeed == Init /\ [][NextFeed]_vars

\* the same, with a closing that was started running to its end: the event
\* loop keeps running the connection's callbacks
SpecSession == Init /\ [][NextFeed]_vars /\ WF_vars(CloseDone)

NextChan ==
    \/ \E name \in ChanNameArgs, product_ids \in IdArgs :
            NewChannel(name, product_ids)
    \/ \E channels \in ChannelsArgs : WsClientInit(channels)
    \/ \E name \in ChanNameArgs, product_ids \in IdArgs :
            Unsubscribe(name, product_ids)
    \/ \E i \in 1..Len(chans.made) : AsDict(i)

\* the caller makes Channel objects and a feed client and calls it
SpecChan == Init /\ [][NextChan]_vars

----------------------------------------------------------------------------
(* Client.place_order *)

\* data.update(d2): the items of d2 set in d, in their order
RECURSIVE DictUpdate(_, _)
DictUpdate(d, items) ==
    IF items = <<>> THEN d
    ELSE DictUpdate(DictSet(d, items[1][1], items[1][2]), Tail(items))

\* the checks of place_order on its arguments a, in the order of the code:
\* the text of the first ValueError, or "" when all pass
OrderError(a) ==
    IF a.side \notin {"buy", "sell"}
    THEN "Invalid side: " \o a.side \o ". Must be either buy or sell"
    ELSE IF a.order_type \notin {"limit", "market"}
    THEN "Invalid order type: " \o a.order_type
             \o ". Must be either market or limit"
    ELSE IF Truthy(a.stop) /\ a.stop.s \notin {"loss", "entry"}
    THEN "Invalid stop: " \o a.stop.s \o ". Must be either loss or entry."
    ELSE IF Truthy(a.stop) /\ ~Truthy(a.stop_price)
    THEN "Stop orders must have stop_price set."
    ELSE IF a.stp \notin {"dc", "co", "cn", "cb"}
    THEN "Invalid stp: " \o a.stp \o ". Must be dc, co, cn, or cb."
    ELSE IF a.order_type = "limit"
    THEN IF ~(Truthy(a.price) /\ Truthy(a.size))
         THEN "Limit orders must have both price and size set."
         ELSE IF a.time_in_force \notin {"GTC", "GTT", "IOC", "FOK"}
         THEN "time_in_force must be GTC, GCC, IOC or FOK."
         ELSE IF Truthy(a.cancel_after) /\ a.time_in_force # "GTT"
         THEN "cancel_after requires time_in_force to be GTT"
         ELSE IF /\ Truthy(a.cancel_after)
                 /\ a.cancel_after.s \notin {"min", "hour", "day"}
         THEN "cancel_after must be min, hour, or day"
         ELSE ""
    ELSE IF ~(Truthy(a.funds) \/ Truthy(a.size))
    THEN "Market orders must have funds or size set."
    ELSE IF Truthy(a.funds) /\ Truthy(a.size)
    THEN "Market orders can't have both funds and size set."
    ELSE ""

\* the data dict place_order builds from arguments that pass the checks
OrderData(a) ==
    LET d0 == Dict(<<<<"side", PyS(a.side)>>,
                     <<"product_id", PyS(a.product_id)>>,
                     <<"order_type", PyS(a.order_type)>>,
                     <<"stp", PyS(a.stp)>>>>)
        d1 == IF Truthy(a.stop)
              THEN DictUpdate(d0, <<<<"stop", a.stop>>,
                                    <<"stop_price", a.stop_price>>>>)
              ELSE d0
        d2 == IF Truthy(a.client_oid)
              THEN DictSet(d1, "client_oid", a.client_oid) ELSE d1
    IN IF a.order_type = "limit"
       THEN LET d3 == DictUpdate(d2,
                          <<<<"price", a.price>>, <<"size", a.size>>,
                            <<"time_in_force", PyS(a.time_in_force)>>,
                            <<"post_only", a.post_only>>>>)
            IN IF Truthy(a.cancel_after)
               THEN DictSet(d3, "cancel_after", a.cancel_after) ELSE d3
       ELSE LET d3 == IF Truthy(a.size) THEN DictSet(d2, "size", a.size)
                      ELSE d2
            IN IF Truthy(a.funds) THEN DictSet(d3, "funds", a.funds) ELSE d3

\* place_order that lets a market order with both funds and size through
place_order_BothAllowed(c, now, a, resp) ==
    IF OrderError(a) \notin
           {"", "Market orders can't have both funds and size set."}
    THEN Failed("ValueError", OrderError(a))
    ELSE Client_post(c, now, "/orders", OrderData(a), TRUE, resp)

\* Client.place_order(side, product_id, order_type, price, size, funds,
\* time_in_force, cancel_after, post_only, stop, stop_price, client_oid, stp)
\* with its arguments in the record a
place_order(c, now, a, resp) ==
    IF OrderError(a) # ""
    THEN Failed("ValueError", OrderError(a))
    ELSE Client_post(c, now, "/orders", OrderData(a), TRUE, resp)

\* the arguments the caller gives to place_order
OrderArgs ==
    [side : {"buy", "hold"}, product_id : {"BTC-USD"},
     order_type : {"limit", "market"},
     price : {None, PyS("100.5")},
     size : {None, PyI(0), PyS("2")},
     funds : {None, PyS("50")},
     time_in_force : {"GTC", "GTT"},
     cancel_after : {None, PyS("min")},
     post_only : {PyB(TRUE)},
     stop : {None, PyS("loss")},
     stop_price : {None, PyS("90")},
     client_oid : {None},
     stp : {"dc"}]

\* await client.place_order(...)
PlaceOrder(a, resp) ==
    Do("place_order", a, place_order(client, Time(clock), a, resp), resp)

NextOrders ==
    \/ \E auth \in BOOLEAN, key \in Keys, secret \in Secrets,
          passphrase \in Passphrases :
            ClientInit(auth, key, secret, passphrase)
    \/ Resume
    \/ /\ Idle
       /\ \E a \in OrderArgs, resp \in TaskResponses : PlaceOrder(a, resp)

\* a client whose caller places orders
SpecOrders == Init /\ [][NextOrders]_vars

----------------------------------------------------------------------------
(* Client.historic_rates *)

\* dateutil.parser.parse(start).timestamp() on the start strings of the
\* model, with UTC as the local zone; -1 stands for the ValueError parse
\* raises on a string that is no date
ParseTimestamp(start) ==
    CASE start = "1970-01-02" -> 86400
      [] start = "1970-01-03" -> 172800
      [] OTHER -> -1

\* [x for x in body if x[0] >= ts] on a list of buckets; a bucket is
\* abstracted to the pair <<"time", its time>>
BucketsFrom(body, ts) ==
    LET Keep(x) == x[2].n >= ts
    IN JList(SelectSeq(body.items, Keep))

\* the return statements of historic_rates on the headers and body self.get
\* returned.  Iterating over a dict gives its keys, and a key's first
\* character does not compare with a float.
RatesReturn(r, start, stop) ==
    IF r.out.kind = "raise" \/ ~(Truthy(start) /\ Truthy(stop)) THEN r
    ELSE IF ParseTimestamp(start.s) = -1
    THEN [r EXCEPT !.out = Raise("ValueError", "", NoResp)]
    ELSE IF r.out.body.ty = "list"
    THEN [r EXCEPT !.out.body = BucketsFrom(r.out.body,
                                            ParseTimestamp(start.s))]
    ELSE IF r.out.body.items = <<>>
    THEN [r EXCEPT !.out.body = JList(<<>>)]
    ELSE [r EXCEPT !.out = Raise("TypeError", "", NoResp)]

\* historic_rates that returns every bucket the server sent
historic_rates_NoFilter(c, now, product_id, granularity, start, stop, resp) ==
    IF granularity.n \notin {60, 300, 900, 3600, 21600, 86400}
    THEN Failed("ValueError", "invalid granularity " \o PyStr(granularity))
    ELSE LET p0 == Dict(<<<<"granularity", granularity>>>>)
             params == IF Truthy(start) /\ Truthy(stop)
                       THEN DictUpdate(p0, <<<<"start", start>>,
                                             <<"stop", stop>>>>)
                       ELSE p0
         IN Client_get(c, now, "/products/" \o product_id \o "/candles",
                       params, FALSE, resp)

\* Client.historic_rates(product_id, granularity, start, stop)
historic_rates(c, now, product_id, granularity, start, stop, resp) ==
    IF granularity.n \notin {60, 300, 900, 3600, 21600, 86400}
    THEN Failed("ValueError", "invalid granularity " \o PyStr(granularity))
    ELSE LET p0 == Dict(<<<<"granularity", granularity>>>>)
             params == IF Truthy(start) /\ Truthy(stop)
                       THEN DictUpdate(p0, <<<<"start", start>>,
                                             <<"stop", stop>>>>)
                       ELSE p0
         IN RatesReturn(
                Client_get(c, now, "/products/" \o product_id \o "/candles",
                           params, FALSE, resp),
                start, stop)

\* the arguments the caller gives to historic_rates
RateArgs ==
    [granularity : {PyI(3600), PyI(42)},
     start : {None, PyS(""), PyS("1970-01-02"), PyS("soon")},
     stop : {None, PyS(""), PyS("1970-01-04")}]

\* what the server answers to a candles request: buckets, newest first or
\* in any order it likes, or an error
CandleResponses ==
    [status : {200}, headers : {<<>>},
     body : {JList(<<>>),
             JList(<<<<"time", PyI(172800)>>, <<"time", PyI(86400)>>,
                     <<"time", PyI(0)>>>>),
             JList(<<<<"time", PyI(0)>>, <<"time", PyI(172800)>>,
                     <<"time", PyI(3600)>>, <<"time", PyI(86400)>>>>),
             Dict(<<>>)}]
        \cup {[status |-> 400, headers |-> <<>>,
                body |-> Dict(<<<<"message", PyS("Not Found")>>>>)],
               [status |-> 200, headers |-> <<>>,
                body |-> Dict(<<<<"message", PyS("Not Found")>>>>)],
               ConnError}

\* await client.historic_rates('BTC-USD', granularity, start, stop)
HistoricRates(a, resp) ==
    Do("historic_rates", a,
       historic_rates(client, Time(clock), "BTC-USD", a.granularity, a.start,
                      a.stop, resp),
       resp)

NextRates ==
    \/ \E auth \in BOOLEAN, key \in Keys, secret \in Secrets,
          passphrase \in Passphrases :
            ClientInit(auth, key, secret, passphrase)
    \/ Resume
    \/ /\ Idle
       /\ \E a \in RateArgs, resp \in CandleResponses : HistoricRates(a, resp)

\* a client whose caller asks for historic rates
SpecRates == Init /\ [][NextRates]_vars

----------------------------------------------------------------------------
(* The bare BaseClient: its handle_error hook, its session and close       *)

\* BaseClient.handle_error(response): pass.  Nothing is raised.
BaseClient_handle_error(response) == Return(NoHeaders, NotJson, None, None)

\* _request that calls the hook on every response
BaseClient_request_HookAlways(method, url, data, headers, resp) ==
    IF method \notin {"delete", "get", "post"}
    THEN [sent |-> 0, req |-> NoReq, hooked |-> <<>>,
          out |-> Raise("ValueError",
                        "Inavlid method " \o method
                            \o ". Must be delete, get, or post", NoResp)]
    ELSE LET req == [method |-> method, url |-> url, data |-> data,
                     headers |-> headers]
         IN IF resp = ConnError
            THEN [sent |-> 1, req |-> req, hooked |-> <<>>,
                  out |-> Raise("ClientConnectionError", "", NoResp)]
            ELSE [sent |-> 1, req |-> req, hooked |-> <<resp>>,
                  out |-> [BaseClient_handle_error(resp)
                             EXCEPT !.response = resp]]

\* BaseClient._request(method, url, data=data, headers=headers) on a bare
\* BaseClient: hooked lists the responses handle_error was awaited with, and
\* out is the response returned (handle_error having raised nothing) or the
\* exception raised
BaseClient_request(method, url, data, headers, resp) ==
    IF method \notin {"delete", "get", "post"}
    THEN [sent |-> 0, req |-> NoReq, hooked |-> <<>>,
          out |-> Raise("ValueError",
                        "Inavlid method " \o method
                            \o ". Must be delete, get, or post", NoResp)]
    ELSE LET req == [method |-> method, url |-> url, data |-> data,
                     headers |-> headers]
         IN IF resp = ConnError
            THEN [sent |-> 1, req |-> req, hooked |-> <<>>,
                  out |-> Raise("ClientConnectionError", "", NoResp)]
            ELSE IF resp.status >= 400
            THEN [sent |-> 1, req |-> req, hooked |-> <<resp>>,
                  out |-> [BaseClient_handle_error(resp)
                             EXCEPT !.response = resp]]
            ELSE [sent |-> 1, req |-> req, hooked |-> <<>>,
                  out |-> [Return(NoHeaders, NotJson, None, None)
                             EXCEPT !.response = resp]]

\* self.session.closed
closed(sess) == sess = "closed"

\* BaseClient(loop): the session is created
BaseInit ==
    /\ base.session = "none"
    /\ base' = [base EXCEPT !.session = "open"]
    /\ UNCHANGED <<client, session, clock, netCount, call, sig, tasks>>
    /\ UNCHANGED <<feedVars, sharedHeaders>>

\* await base._request(method, url, headers=HEADERS) on the open session
BaseRequest(method, path, resp) ==
    /\ base.session = "open"
    /\ \E r \in {BaseClient_request(method, URL \o path, None, sharedHeaders,
                                     resp)} :
         base' = [base EXCEPT
                    !.call = [op |-> "_request", method |-> method,
                              path |-> path, sent |-> r.sent, req |-> r.req,
                              resp |-> IF r.sent > 0 THEN resp ELSE NoResp,
                              hooked |-> r.hooked, out |-> r.out]]
    /\ UNCHANGED <<client, session, clock, netCount, call, sig, tasks>>
    /\ UNCHANGED <<feedVars, sharedHeaders>>

\* await base.close(): await self.session.close()
BaseClose ==
    /\ base.session # "none"
    /\ base' = [base EXCEPT !.session = "closed"]
    /\ UNCHANGED <<client, session, clock, netCount, call, sig, tasks>>
    /\ UNCHANGED <<feedVars, sharedHeaders>>

\* __aexit__ that closes the session only when the block raised nothing
BaseAExit_NormalOnly(raised) ==
    /\ base.session # "none"
    /\ base' = [base EXCEPT !.session = IF raised THEN @ ELSE "closed",
                            !.exit = IF raised THEN "raised" ELSE "normal"]
    /\ UNCHANGED <<client, session, clock, netCount, call, sig, tasks>>
    /\ UNCHANGED <<feedVars, sharedHeaders>>

\* the block of "async with base:" is left, by its end or by an exception:
\* __aexit__(exc_type, exc_value, traceback) awaits self.session.close()
BaseAExit(raised) ==
    /\ base.session # "none"
    /\ base' = [base EXCEPT !.session = "closed",
                            !.exit = IF raised THEN "raised" ELSE "normal"]
    /\ UNCHANGED <<client, session, clock, netCount, call, sig, tasks>>
    /\ UNCHANGED <<feedVars, sharedHeaders>>

NextBase ==
    \/ BaseInit
    \/ \E method \in RequestMethods, path \in Paths, resp \in Responses :
            BaseRequest(method, path, resp)
    \/ BaseClose
    \/ \E raised \in BOOLEAN : BaseAExit(raised)

\* a bare BaseClient: construction, requests, close
SpecBase == Init /\ [][NextBase]_vars

----------------------------------------------------------------------------
(* The HEADERS dict: one object, the default of every headers argument     *)

\* whoever holds the headers mapping of an unauthenticated request that was
\* made sets a key in it: the mapping is the module's HEADERS dict itself
MutateHeaders ==
    /\ \/ base.call # NoCall /\ base.call.sent = 1
       \/ call # NoCall /\ call.op = "get" /\ ~call.args.auth /\ call.sent = 1
    /\ "X-Debug" \notin DOMAIN sharedHeaders
    /\ sharedHeaders' = sharedHeaders @@ ("X-Debug" :> "1")
    /\ UNCHANGED <<client, session, clock, netCount, call, sig, tasks>>
    /\ UNCHANGED <<feedVars, base>>

NextShared ==
    \/ BaseInit
    \/ \E method \in {"get", "post"}, path \in Paths, resp \in TaskResponses :
            BaseRequest(method, path, resp)
    \/ MutateHeaders
    \/ \E key \in Keys : ClientInit(FALSE, key, "", "")
    \/ Resume
    \/ /\ Idle
       /\ \E path \in Paths, params \in Params, resp \in TaskResponses :
               Get(path, params, FALSE, resp)

\* a BaseClient and a Client in one process, and a holder of the headers
\* mapping their unauthenticated requests use
SpecShared == Init /\ [][NextShared]_vars

----------------------------------------------------------------------------
(* Properties *)

PaginatedOps == {"trades", "account_history", "holds", "orders", "fills"}

\* the call was made with authentication requested: get/post/delete with
\* auth=True, or an endpoint that passes auth=True itself
AuthRequested ==
    \/ call.op \in {"get", "post", "delete"} /\ call.args.auth
    \/ call.op \in {"account_history", "holds", "orders", "fills"}

\* the error body of the response is an object with a text message field
HasMessage(resp) ==
    /\ resp.body.ty = "dict"
    /\ HasKey(resp.body, "message")
    /\ DictGet(resp.body, "message").ty = "str"

\* C1: a paginated call (trades, account_history, holds, orders, fills) given
\* both a before and an after cursor raises ValueError and has sent no
\* request.  A cursor is given when its value is true in Python's sense, the
\* test the code makes.
C1_CursorExclusivity ==
    (/\ call.op \in PaginatedOps
     /\ Truthy(call.args.before)
     /\ Truthy(call.args.after))
    => /\ call.out.kind = "raise"
       /\ call.out.exc = "ValueError"
       /\ call.sent = 0
       /\ call.req = NoReq

\* trades was called with both cursors on a client that could have sent
C1_Witness ==
    /\ call.op = "trades"
    /\ call.args.before = PyS("100")
    /\ call.args.after = PyS("100")
    /\ netCount < MaxRequests
    /\ call.out.exc = "ValueError"

C3_Deterministic ==
    [][(/\ sig.called
        /\ sig'.called
        /\ sig'.timestamp # None
        /\ sig'.path = sig.path
        /\ sig'.method = sig.method
        /\ sig'.body = sig.body
        /\ sig'.timestamp = sig.timestamp)
       => /\ sig'.res.headers = sig.res.headers
          /\ client' = client
          /\ session' = session]_vars

\* C3 for the timestamps the code takes as given (any but None, 0 and 0.0):
\* these fix the headers whatever the wall clock shows.
C3_DeterministicNonZero ==
    [][(/\ sig.called
        /\ sig'.called
        /\ Truthy(sig'.timestamp)
        /\ sig'.path = sig.path
        /\ sig'.method = sig.method
        /\ sig'.body = sig.body
        /\ sig'.timestamp = sig.timestamp)
       => /\ sig'.res.headers = sig.res.headers
          /\ client' = client
          /\ session' = session]_vars

\* the body the signed message must end with, for each payload of Bodies
ExpectedJson(body) ==
    CASE body = Dict(<<<<"side", PyS("buy")>>>>) -> "{\"side\": \"buy\"}"
      [] body = Dict(<<<<"side", PyS("buy")>>, <<"size", PyI(2)>>>>)
           -> "{\"side\": \"buy\", \"size\": 2}"
      [] OTHER -> ""

\* C4: the message get_auth_headers signs is the timestamp string (the one
\* of the CB-ACCESS-TIMESTAMP header, str(timestamp) when one is given),
\* then the method, the path and the body; the body is the JSON text of the
\* payload, and is empty for None and for an empty dict.
C4_CanonicalMessage ==
    (sig.called /\ sig.res.exc = "")
    => /\ sig.res.message = sig.res.headers["CB-ACCESS-TIMESTAMP"]
                              \o sig.method \o sig.path
                              \o ExpectedJson(sig.body)
       /\ sig.res.headers["CB-ACCESS-SIGN"] =
              B64Encode(HmacSha256(B64Decode(client.secret), sig.res.message))
       /\ Truthy(sig.timestamp)
          => sig.res.headers["CB-ACCESS-TIMESTAMP"] = PyStr(sig.timestamp)
       /\ (/\ sig.timestamp = PyF(1000, 0)
           /\ sig.method = "POST"
           /\ sig.path = "/orders"
           /\ sig.body = Dict(<<<<"side", PyS("buy")>>>>))
          => sig.res.message = "1000.0POST/orders{\"side\": \"buy\"}"

\* sign(path="/orders", method="POST", body={"side": "buy"}, timestamp=1000.0)
C4_Witness ==
    /\ sig.called
    /\ sig.res.exc = ""
    /\ sig.timestamp = PyF(1000, 0)
    /\ sig.method = "POST"
    /\ sig.path = "/orders"
    /\ sig.body = Dict(<<<<"side", PyS("buy")>>>>)

\* an authenticated post that reached the network
AuthPostSent == call.op = "post" /\ call.args.auth /\ call.sent > 0

\* C5 as stated: an authenticated post serializes its body once, and that
\* text is both the signed body and the payload sent.
C5_SerializedOnce ==
    AuthPostSent
    => /\ call.dumps = 1
       /\ call.req.data = PyS(call.signed.body)

\* C5: in an authenticated post the payload sent is the very text the signed
\* message ends with, for an empty payload too; json.dumps runs twice for a
\* payload that is not empty (in get_auth_headers and in BaseClient.post) and
\* never for an empty one.
C5_SignedBodyIsSentBody ==
    AuthPostSent
    => /\ call.req.data = PyS(call.signed.body)
       /\ call.signed.message = call.req.headers["CB-ACCESS-TIMESTAMP"]
                                  \o "POST" \o call.args.path
                                  \o call.req.data.s
       /\ call.req.data.s = ExpectedJson(call.args.data)
       /\ call.dumps = IF DictTruthy(call.args.data) THEN 2 ELSE 0

\* an authenticated post of {"side": "buy"} was sent
C5_Witness ==
    /\ AuthPostSent
    /\ call.args.data = Dict(<<<<"side", PyS("buy")>>>>)
    /\ call.req.data = PyS("{\"side\": \"buy\"}")

\* C6: a call with authentication requested on a client built with
\* auth=False raises ValueError and has sent no request.
C6_AuthNeedsCredentials ==
    (call.op # "none" /\ AuthRequested /\ ~client.auth)
    => /\ call.out.kind = "raise"
       /\ call.out.exc = "ValueError"
       /\ call.sent = 0
       /\ call.req = NoReq

\* holds was called on a client without authentication, with one cursor
C6_Witness ==
    /\ call.op = "holds"
    /\ ~client.auth
    /\ ~Truthy(call.args.before)
    /\ netCount < MaxRequests
    /\ call.out.text = "client is not properly configured for authorization"

\* C7: every construction with auth=True and an empty key, secret or
\* passphrase raises ValueError and creates neither a client nor a session;
\* every other construction gives a client with an open session.
C7_ConstructionNeedsCredentials ==
    [][\A auth \in BOOLEAN, key \in Keys, secret \in Secrets,
          passphrase \in Passphrases :
          ClientInit(auth, key, secret, passphrase)
          => IF auth /\ (key = "" \/ secret = "" \/ passphrase = "")
             THEN client'.built = "raised" /\ session' = "none"
             ELSE client'.built = "ok" /\ session' = "open"]_vars

\* a construction has raised
C7_Witness == client.built = "raised" /\ session = "none"

\* C8: _request sends a request exactly for the methods get, post and delete
\* (the names the code gives GET, POST and DELETE); for any other value it
\* raises ValueError and sends nothing.
C8_MethodsAccepted ==
    call.op = "_request"
    => IF call.args.method \in {"get", "post", "delete"}
       THEN /\ call.sent = 1
            /\ call.req.method = call.args.method
            /\ call.out.exc # "ValueError"
       ELSE /\ call.sent = 0
            /\ call.req = NoReq
            /\ call.out.kind = "raise"
            /\ call.out.exc = "ValueError"

\* _request was called with the method put on a client that could have sent
C8_Witness ==
    /\ call.op = "_request"
    /\ call.args.method = "put"
    /\ netCount < MaxRequests
    /\ call.out.exc = "ValueError"

\* the headers of an authenticated request but for the Content-Type value
AuthHeadersBut(contentType) ==
    (call.op # "none" /\ AuthRequested /\ call.sent > 0)
    => LET h == call.req.headers
       IN /\ DOMAIN h = {"USER-AGENT", "Content-Type", "CB-ACCESS-SIGN",
                         "CB-ACCESS-TIMESTAMP", "CB-ACCESS-KEY",
                         "CB-ACCESS-PASSPHRASE"}
          /\ h["USER-AGENT"] = USER_AGENT
          /\ h["Content-Type"] = contentType
          /\ h["CB-ACCESS-KEY"] = client.key
          /\ h["CB-ACCESS-PASSPHRASE"] = client.passphrase
          /\ h["CB-ACCESS-TIMESTAMP"] = PyStr(Time(call.at))
          /\ h["CB-ACCESS-SIGN"] =
                 B64Encode(HmacSha256(B64Decode(client.secret),
                                      call.signed.message))
          /\ call.op \in {"get", "post", "delete"}
             => call.signed.message =
                    h["CB-ACCESS-TIMESTAMP"]
                      \o (CASE call.op = "get" -> "GET"
                            [] call.op = "post" -> "POST"
                            [] OTHER -> "DELETE")
                      \o call.args.path \o call.signed.body

\* C9 as stated: the headers of an authenticated request are exactly the six
\* named ones, with Content-Type application/json.
C9_HeadersLowerCase == AuthHeadersBut("application/json")

\* C9: the headers of an authenticated request are exactly USER-AGENT,
\* Content-Type, CB-ACCESS-SIGN, CB-ACCESS-TIMESTAMP, CB-ACCESS-KEY and
\* CB-ACCESS-PASSPHRASE; Content-Type is written Application/JSON, the
\* timestamp is the one signed, the key and passphrase are the client's.
C9_AuthHeaders == AuthHeadersBut("Application/JSON")

\* an authenticated get was sent
C9_Witness ==
    /\ call.op = "get"
    /\ call.args.auth
    /\ call.sent = 1
    /\ call.req.headers["CB-ACCESS-KEY"] = "key1"

\* the value of the response header called name, or None without one
RespHeader(resp, name) ==
    IF \E i \in 1..Len(resp.headers) : resp.headers[i][1] = name
    THEN PyS(resp.headers[CHOOSE i \in 1..Len(resp.headers) :
                            resp.headers[i][1] = name][2])
    ELSE None

\* C10: a paginated call that returns gives the body of the response and the
\* values of its cb-before and cb-after headers, each None exactly when the
\* response has no header of that name.
C10_CursorsPassThrough ==
    (call.op \in PaginatedOps /\ call.out.kind = "return")
    => /\ call.out.body = call.resp.body
       /\ call.out.before = RespHeader(call.resp, "cb-before")
       /\ call.out.after = RespHeader(call.resp, "cb-after")
       /\ call.resp.headers = <<<<"cb-after", "100">>>>
          => call.out.before = None /\ call.out.after = PyS("100")

\* trades returned a page whose response had cb-after "100" and no cb-before
C10_Witness ==
    /\ call.op = "trades"
    /\ call.out.kind = "return"
    /\ call.resp.headers = <<<<"cb-after", "100">>>>
    /\ call.out.after = PyS("100")

\* the value of the first response header whose name is name in any letter
\* case, or None without one
RespHeaderAnyCase(resp, name) ==
    IF \E i \in 1..Len(resp.headers) : lower(resp.headers[i][1]) = name
    THEN PyS(resp.headers[CHOOSE i \in 1..Len(resp.headers) :
                            lower(resp.headers[i][1]) = name][2])
    ELSE None

\* C11: a paginated call that returns finds the cursor headers whatever the
\* letter case of their names: cb-after, CB-AFTER and Cb-After all give the
\* same after cursor.
C11_CaseInsensitive ==
    (call.op \in PaginatedOps /\ call.out.kind = "return")
    => /\ call.out.before = RespHeaderAnyCase(call.resp, "cb-before")
       /\ call.out.after = RespHeaderAnyCase(call.resp, "cb-after")

\* the request of the call failed: no response, or a status >= 400
RequestFailed == call.resp = ConnError \/ call.resp.status >= 400

\* C12: a call of get, post or delete (directly, through _request or through
\* an endpoint) sends at most one request, whatever the status or failure,
\* and a failed request makes the call raise.
C12_NoRetry ==
    call.op # "none"
    => /\ call.sent <= 1
       /\ (call.sent = 1 /\ RequestFailed) => call.out.kind = "raise"
       /\ call.sent = 0 => call.out.kind = "raise"

\* a post whose connection failed sent one request and raised
C12_Witness ==
    /\ call.op = "post"
    /\ call.sent = 1
    /\ call.resp = ConnError
    /\ call.out.exc = "ClientConnectionError"

\* C13: a call answered with a status >= 400 whose body is not an object with
\* a text message (not JSON, not an object, no message field) raises, and
\* the exception is not APIRequestError.
C13_MalformedErrorBody ==
    (/\ call.op # "none"
     /\ call.sent > 0
     /\ call.resp.status >= 400
     /\ ~HasMessage(call.resp))
    => /\ call.out.kind = "raise"
       /\ call.out.exc \in {"ContentTypeError", "TypeError", "KeyError"}
       /\ call.out.exc # "APIRequestError"
       /\ call.resp.body.ty = "notjson" => call.out.exc = "ContentTypeError"
       /\ (call.resp.body.ty = "dict" /\ ~HasKey(call.resp.body, "message"))
          => call.out.exc = "KeyError"

\* a get was answered 400 with a JSON object without a message field
C13_Witness ==
    /\ call.op = "get"
    /\ call.sent = 1
    /\ call.resp.status = 400
    /\ call.resp.body = Dict(<<<<"id", PyS("7")>>>>)
    /\ call.out.exc = "KeyError"

\* the request of task t that is on the network or answered was made from
\* the fields the client has: its url, and when signed its key, passphrase
\* and secret
SentWithClientValues(t) ==
    LET k == tasks[t]
        auth == k.op = "holds" \/ k.auth
        method == CASE k.op = "post" -> "POST"
                    [] k.op = "delete" -> "DELETE"
                    [] OTHER -> "GET"
        path == IF k.op = "holds" THEN "/accounts/a1/holds" ELSE "/orders"
        query == IF k.op = "holds" THEN "?limit=100" ELSE ""
        body == IF k.op = "post" THEN "{\"side\": \"buy\"}" ELSE ""
    IN (k.pc \in {"sent", "done"} /\ k.sent = 1)
       => /\ k.req.url = client.url \o path \o query
          /\ ~auth => k.req.headers = HEADERS
          /\ auth
             => /\ client.auth
                /\ k.req.headers["CB-ACCESS-KEY"] = client.key
                /\ k.req.headers["CB-ACCESS-PASSPHRASE"] = client.passphrase
                /\ k.req.headers["CB-ACCESS-SIGN"] =
                       B64Encode(HmacSha256(
                           B64Decode(client.secret),
                           PyStr(Time(k.at)) \o method \o path \o body))

\* C14: no step of a REST call, whatever calls of other tasks it is
\* interleaved with, changes the auth flag, key, secret, passphrase or url
\* of a constructed client, and every request is made from those values.
C14_ClientFrame ==
    [][/\ client.built = "ok" => client' = client
       /\ \A t \in Callers : SentWithClientValues(t)']_vars

\* two signed calls are in flight at once, started at different times
C14_Witness ==
    /\ tasks["t1"].pc = "sent"
    /\ tasks["t2"].pc = "sent"
    /\ tasks["t1"].op = "post" /\ tasks["t1"].auth
    /\ tasks["t2"].op = "holds"
    /\ tasks["t1"].at < tasks["t2"].at

\* the Channel objects the feed client holds: those of its channels dict and
\* those of _initial_channels
Registered ==
    IF ws.state = "none" THEN {}
    ELSE SetOf(ws._initial_channels)
             \cup {ws.channels[n] : n \in DOMAIN ws.channels}

\* C15: Channel(name, product_ids) with a name that, lower-cased, is not one
\* of heartbeat, ticker, level2, full, matches, user, or with no product id
\* (None, '' or []), raises ValueError, makes no Channel and leaves the feed
\* client and the channels it holds unchanged.
C15_InvalidChannel ==
    [][\A name \in ChanNameArgs, product_ids \in IdArgs :
         (/\ NewChannel(name, product_ids)
          /\ \/ lower(name) \notin ChannelNames
             \/ product_ids \in {NoIds, IdStr(""), IdList(<<>>)})
         => /\ chans'.last.exc = "ValueError"
            /\ chans'.made = chans.made
            /\ Registered' = Registered
            /\ ws' = ws]_vars

\* Channel('ticker', []) raised ValueError while a client held a channel
C15_Witness ==
    /\ chans.last.called
    /\ chans.last.name = "ticker"
    /\ chans.last.product_ids = IdList(<<>>)
    /\ chans.last.exc = "ValueError"
    /\ Registered # {}

\* C16: the feed client holds at most one Channel per name, and the Channel
\* of a name has the product ids of every subscription to that name (given
\* ticker/BTC-USD and ticker/ETH-USD it holds one ticker Channel with both).
C16_OneChannelPerName ==
    ws.state # "none"
    => \A ch \in SetOf(ws._initial_channels) :
         /\ Cardinality({r \in Registered : r.name = ch.name}) = 1
         /\ \E r \in Registered :
              /\ r.name = ch.name
              /\ r.product_ids =
                     UNION {g.product_ids : g \in
                              {h \in SetOf(ws._initial_channels) :
                                 h.name = ch.name}}

\* C17: unsubscribe(name) without product ids removes the Channel of that
\* name; unsubscribe(name, product_ids) removes those product ids and the
\* Channel with them when none is left; no Channel the client holds has an
\* empty set of product ids.
C17_Unsubscribe ==
    /\ \A r \in Registered : r.product_ids # {}
    /\ (ws.state # "none" /\ ws.call.op = "unsubscribe")
       => /\ ws.call.exc = ""
          /\ \A r \in Registered :
               r.name = lower(ws.call.name)
               => /\ IdsTruthy(ws.call.product_ids)
                  /\ r.product_ids \cap SetOf(ws.call.product_ids.vals) = {}

\* the subscription message for the channels chs
SubscribeFrame(chs) == [type |-> "subscribe", channels |-> chs]

\* C18: once the connection of a client that holds channels is open, the
\* first frame the client has sent on it is a subscription message carrying
\* every channel the client holds.
C18_SubscribeOnOpen ==
    (ws.state = "open" /\ Registered # {})
    => /\ Len(ws.sent) >= 1
       /\ ws.sent[1] = SubscribeFrame(Registered)

\* the payload is the JSON text of a message
IsJson(payload) == payload \in {JsonDumps(m) : m \in Messages}

\* the frames given to onMessage so far that are JSON text, in the order of
\* their arrival
JsonFramesProcessed ==
    SelectSeq(SubSeq(feed.received, 1, feed.next - 1), IsJson)

C20_MalformedHandled ==
    (\E i \in 1..(feed.next - 1) : ~IsJson(feed.received[i]))
    => /\ feed.raised = <<>>
       /\ ws.state = "open"

\* the states of a connection and the steps between them
SessionStates == {"connecting", "open", "closing", "closed"}

SessionSteps == {<<"connecting", "open">>, <<"connecting", "closed">>,
                 <<"open", "closing">>, <<"open", "closed">>,
                 <<"closing", "closed">>}

C22_NoOpHook ==
    (base.call # NoCall /\ base.call.sent = 1 /\ base.call.resp # ConnError)
    => /\ base.call.out.kind = "return"
       /\ base.call.out.response = base.call.resp
       /\ base.call.hooked = IF base.call.resp.status >= 400
                             THEN <<base.call.resp>> ELSE <<>>

\* a get on the bare BaseClient was answered 404 and returned the response
C22_Witness ==
    /\ base.call # NoCall
    /\ base.call.method = "get"
    /\ base.call.resp.status = 404
    /\ base.call.hooked = <<base.call.resp>>
    /\ base.call.out.kind = "return"

\* C25: closed is False from the construction of the client until close()
\* or the exit of its "async with" block, True after either, whether the
\* block ended or raised, and never False again.
C25_ClosedIsFinal ==
    /\ [](base.exit # "none" => closed(base.session))
    /\ [][/\ BaseInit => ~closed(base'.session)
          /\ closed(base.session) => closed(base'.session)
          /\ BaseClose => closed(base'.session)
          /\ (~closed(base.session) /\ closed(base'.session))
             => (BaseClose \/ \E raised \in BOOLEAN : BaseAExit(raised))]_vars

\* the block of "async with" was left by an exception and the client is
\* closed
C25_Witness ==
    /\ base.exit = "raised"
    /\ base.call # NoCall
    /\ closed(base.session)

\* a place_order call for a market order whose side, stop and stp arguments
\* are valid
MarketOrder ==
    /\ call # NoCall
    /\ call.op = "place_order"
    /\ call.args.order_type = "market"
    /\ call.args.side \in {"buy", "sell"}
    /\ Truthy(call.args.stop) => Truthy(call.args.stop_price)

\* the fields every order carries, with the stop fields of a stop order
CommonOrderItems(a) ==
    <<<<"side", PyS(a.side)>>, <<"product_id", PyS(a.product_id)>>,
      <<"order_type", PyS(a.order_type)>>, <<"stp", PyS(a.stp)>>>>
    \o (IF Truthy(a.stop)
        THEN <<<<"stop", a.stop>>, <<"stop_price", a.stop_price>>>>
        ELSE <<>>)

\* C23: a market order is accepted only when exactly one of funds and size
\* is set: with neither or both place_order raises ValueError and sends
\* nothing; an accepted order posts a payload with that one field and
\* without price, time_in_force, post_only and cancel_after
C23_MarketOrder ==
    MarketOrder =>
        LET a == call.args
        IN IF Truthy(a.funds) = Truthy(a.size)
           THEN /\ call.out.kind = "raise"
                /\ call.out.exc = "ValueError"
                /\ call.out.text \in
                       {"Market orders must have funds or size set.",
                        "Market orders can't have both funds and size set."}
                /\ call.sent = 0
           ELSE /\ call.out.text \notin
                       {"Market orders must have funds or size set.",
                        "Market orders can't have both funds and size set."}
                /\ client.auth => call.sent = 1
                /\ call.sent = 1 =>
                     /\ call.req.method = "post"
                     /\ call.req.data = PyS(JsonDumps(Dict(
                            CommonOrderItems(a)
                            \o (IF Truthy(a.size) THEN <<<<"size", a.size>>>>
                                ELSE <<<<"funds", a.funds>>>>))))

\* market orders were placed with funds alone and posted, and with both
\* funds and size and refused
C23_Witness ==
    /\ MarketOrder
    /\ call.sent = 1
    /\ Truthy(call.args.funds)
    /\ call.args.size = PyI(0)
    /\ call.args.price # None
    /\ call.args.cancel_after # None

\* the cursor items of a query: the truthy one of before and after, if any
OneCursor(before, after) ==
    IF Truthy(before) THEN <<<<"before", before>>>>
    ELSE IF Truthy(after) THEN <<<<"after", after>>>>
    ELSE <<>>

\* C24: fills needs exactly one of order_id and product_id: with neither or
\* both it raises ValueError and sends nothing; an accepted call asks for
\* /fills with limit, at most one cursor and that one filter
C24_FillsOneFilter ==
    (call # NoCall /\ call.op = "fills") =>
        LET a == call.args
        IN IF (a.order_id = "") = (a.product_id = "")
           THEN /\ call.out.kind = "raise"
                /\ call.out.exc = "ValueError"
                /\ call.sent = 0
           ELSE /\ (client.auth /\ ~(Truthy(a.before) /\ Truthy(a.after)))
                      => call.sent = 1
                /\ call.sent = 1 =>
                     /\ ~(Truthy(a.before) /\ Truthy(a.after))
                     /\ call.req.method = "get"
                     /\ call.req.url = client.url \o "/fills?" \o urlencode(
                            Dict(<<<<"limit", a.limit>>>>
                                 \o OneCursor(a.before, a.after)
                                 \o (IF a.order_id # ""
                                     THEN <<<<"order_id", PyS(a.order_id)>>>>
                                     ELSE <<<<"product_id",
                                              PyS(a.product_id)>>>>)))

\* fills was asked for one order with an after cursor, and the request sent
C24_Witness ==
    /\ call # NoCall
    /\ call.op = "fills"
    /\ call.sent = 1
    /\ call.args.order_id # ""
    /\ call.args.product_id = ""
    /\ Truthy(call.args.after)

\* the path a paginated call asks for
PagePath ==
    CASE call.op = "trades" -> "/products/BTC-USD/trades"
      [] call.op = "account_history" -> "/accounts/a1/ledger"
      [] call.op = "holds" -> "/accounts/a1/holds"
      [] call.op = "orders" -> "/orders"
      [] OTHER -> "/fills"

\* the parameters of a paginated call that follow limit and the cursor
PageFilters ==
    LET a == call.args
    IN CASE call.op = "orders" ->
              [i \in 1..(IF StatusTruthy(a.status) THEN Len(a.status.vals)
                         ELSE 0) |-> <<"status", PyS(a.status.vals[i])>>]
              \o (IF a.product_id # ""
                  THEN <<<<"product_id", PyS(a.product_id)>>>> ELSE <<>>)
         [] call.op = "fills" ->
              (IF a.order_id # ""
               THEN <<<<"order_id", PyS(a.order_id)>>>> ELSE <<>>)
              \o (IF a.product_id # ""
                  THEN <<<<"product_id", PyS(a.product_id)>>>> ELSE <<>>)
         [] OTHER -> <<>>

\* C28: the query of every paginated request has limit, has before with the
\* caller's value exactly when before is truthy, and after likewise; None,
\* '' and 0 count as not given, so a truthy cursor with a falsy one is sent
\* as a single cursor and no cursor error is raised
C28_TruthyCursors ==
    (call # NoCall /\ call.op \in PaginatedOps) =>
        LET a == call.args
        IN /\ call.sent = 1 =>
                call.req.url = client.url \o PagePath \o "?" \o urlencode(
                    Dict(<<<<"limit", a.limit>>>>
                         \o (IF Truthy(a.before)
                             THEN <<<<"before", a.before>>>> ELSE <<>>)
                         \o (IF Truthy(a.after)
                             THEN <<<<"after", a.after>>>> ELSE <<>>)
                         \o PageFilters))
           /\ (call.out.kind = "raise" /\ call.out.text = BothCursors)
                <=> (Truthy(a.before) /\ Truthy(a.after))
           /\ (call.op = "trades" /\ ~(Truthy(a.before) /\ Truthy(a.after)))
                => call.sent = 1

\* trades was called with before '' and after '100', and one cursor was sent
C28_Witness ==
    /\ call # NoCall
    /\ call.op = "trades"
    /\ call.args.before = PyS("")
    /\ call.args.after = PyS("100")
    /\ call.sent = 1
    /\ call.req.url = client.url \o "/products/BTC-USD/trades?limit="
                          \o PyStr(call.args.limit) \o "&after=100"

\* an authenticated get or delete with parameters was sent
SignedQuery ==
    /\ call # NoCall
    /\ call.op \in {"get", "delete"}
    /\ call.args.auth
    /\ DictTruthy(call.args.params)
    /\ call.sent = 1

\* C27: an authenticated GET or DELETE with parameters signs the timestamp,
\* the method and the path argument alone, without host, query string or
\* body, and is sent to base url + path + '?' + the urlencoded parameters
C27_SignedPathOnly ==
    SignedQuery =>
        /\ call.signed.body = ""
        /\ call.signed.message =
               PyStr(Time(call.at))
                 \o (IF call.op = "get" THEN "GET" ELSE "DELETE")
                 \o call.args.path
        /\ call.req.headers["CB-ACCESS-SIGN"] =
               B64Encode(HmacSha256(B64Decode(client.secret),
                                    call.signed.message))
        /\ call.req.url = client.url \o call.args.path \o "?"
                             \o urlencode(call.args.params)
        /\ call.req.data = None

\* an authenticated delete with the parameter level=2 was sent
C27_Witness ==
    /\ SignedQuery
    /\ call.op = "delete"
    /\ call.req.url = client.url \o call.args.path \o "?level=2"

\* C29: every Channel made has the lower-cased given name, which is one of
\* the six channel names, and a non-empty set of product ids; as_dict()
\* returns exactly the keys name and product_ids, with that name and exactly
\* the elements of that set
C29_ChannelInvariant ==
    /\ [](\A i \in 1..Len(chans.made) :
            /\ chans.made[i].name \in ChannelNames
            /\ chans.made[i].product_ids # {})
    /\ [](chans.dict.of # 0 =>
            LET ch == chans.made[chans.dict.of]
                d == chans.dict.value
            IN /\ d.keys = {"name", "product_ids"}
               /\ d.name = ch.name
               /\ SetOf(d.product_ids) = ch.product_ids
               /\ Len(d.product_ids) = Cardinality(ch.product_ids))
    /\ [][\A name \in ChanNameArgs, product_ids \in IdArgs :
            (NewChannel(name, product_ids) /\ chans'.made # chans.made)
            => /\ chans'.made = Append(chans.made,
                                       chans'.made[Len(chans'.made)])
               /\ chans'.made[Len(chans'.made)].name = lower(name)
               /\ chans'.made[Len(chans'.made)].product_ids =
                      SetOf(product_ids.vals)]_vars

\* Channel('Ticker', ['ETH-USD', 'BTC-USD', 'ETH-USD']) was made and its
\* as_dict() gave name ticker and the two product ids
C29_Witness ==
    /\ chans.last.called
    /\ chans.last.name = "Ticker"
    /\ chans.dict.of # 0
    /\ chans.dict.value.name = "ticker"
    /\ Len(chans.dict.value.product_ids) = 2

\* the buckets of items whose time is at least ts, in their order
RECURSIVE NotBefore(_, _)
NotBefore(items, ts) ==
    IF items = <<>> THEN <<>>
    ELSE (IF items[1][2].n >= ts THEN <<items[1]>> ELSE <<>>)
             \o NotBefore(Tail(items), ts)

\* C30: historic_rates sends start and stop only when both are given; when
\* they are not sent it returns the server's list unchanged, and when they
\* are it returns the server's buckets whose time is >= start, in the
\* server's order, dropping the earlier ones
C30_HistoricRates ==
    (call # NoCall /\ call.op = "historic_rates") =>
        LET a == call.args
            both == Truthy(a.start) /\ Truthy(a.stop)
        IN /\ call.sent = 1 =>
                call.req.url =
                    client.url \o "/products/BTC-USD/candles?granularity="
                        \o PyStr(a.granularity)
                        \o (IF both
                            THEN "&start=" \o a.start.s \o "&stop=" \o a.stop.s
                            ELSE "")
           /\ (call.sent = 1 /\ call.resp # ConnError
               /\ call.resp.status < 400 /\ call.resp.body.ty = "list"
               /\ (both => ParseTimestamp(a.start.s) # -1)) =>
                /\ call.out.kind = "return"
                /\ call.out.body =
                       IF both
                       THEN JList(NotBefore(call.resp.body.items,
                                            ParseTimestamp(a.start.s)))
                       ELSE call.resp.body

\* historic_rates with start and stop got four buckets, two of them earlier
\* than start, and returned the other two
C30_Witness ==
    /\ call # NoCall
    /\ call.op = "historic_rates"
    /\ call.args.start = PyS("1970-01-02")
    /\ call.args.stop = PyS("1970-01-04")
    /\ call.out.kind = "return"
    /\ Len(call.resp.body.items) = 4
    /\ call.out.body = JList(<<<<"time", PyI(172800)>>,
                               <<"time", PyI(86400)>>>>)

\* C26: the headers of each unauthenticated request are made fresh for that
\* call: they are USER-AGENT alone whatever was done to the headers mapping
\* of an earlier call.
C26_FreshHeaders ==
    /\ (base.call # NoCall /\ base.call.sent = 1)
         => base.call.req.headers = ("USER-AGENT" :> USER_AGENT)
    /\ (call # NoCall /\ call.op = "get" /\ ~call.args.auth /\ call.sent = 1)
         => call.req.headers = ("USER-AGENT" :> USER_AGENT)

====
